---------------------------- MODULE Spec2Model ----------------------------
(***************************************************************************)
(* A model of the streaming agent engine of ia-agents:                     *)
(*   - EventStream (packages/agents-core/src/utils/event-stream.ts, kept   *)
(*     in src/packages/agents-core/src/utils/formatter.ts lines 251-373),  *)
(*   - callModel (src/unnamed/part_011),                                   *)
(*   - executeTools / agentLoop / runLoop                                  *)
(*     (src/packages/agents-core/src/agent-loop.ts).                       *)
(*                                                                         *)
(* JavaScript runs the engine on one thread: a step of the model is the    *)
(* code between two suspension points (await / yield).                     *)
(***************************************************************************)
EXTENDS Integers, Sequences, FiniteSets, TLC

VARIABLES
    stream,     \* the EventStream object: queue, waiting, done, final result
    cpc,        \* the single consumer (for await ... of stream): its position
    received,   \* the events the consumer was handed by the iterator, in order
    calls,      \* SpecStream only: every push/end call made so far, in order
    config,     \* the arguments of agentLoop: the input and the AgentLoopConfig
    context,    \* AgentContext: interactions, previousInteractionId, usage, tools, systemInstruction
    pc,         \* position of the agent loop's async function
    iteration,  \* runLoop's iteration counter
    latestTurn, \* runLoop's latestTurn
    requests,   \* the requests sent to the provider (client.interactions.create), in order
    model,      \* callModel's locals: remaining provider events, contentBlocks, endedBlocks, interactionId, usage
    modelTurn,  \* runLoop's modelTurn
    toolCalls,  \* the batch executeTools is working on
    results,    \* executeTools' results
    invoked,    \* the tool.execute calls of the batch: <<position of the call, index of the tool>>
    updated,    \* whether the tool in flight has called onUpdate
    aborted,    \* config.signal.aborted
    followUps,  \* the Turns getFollowUpMessages will return
    sent,       \* the number of Turns queued for getFollowUpMessages so far
    polls,      \* the number of getFollowUpMessages calls so far
    hooks,      \* HookRunner.handlers: hook name -> handlers in registration order
    emit,       \* the HookRunner.emit call in flight, or the last one made
    wrap,       \* the wrapped tool's execute call in flight, or the last one made
    session     \* AgentSession: its fields, and the position and locals of stream()

loopVars == <<config, context, pc, iteration, latestTurn, requests, model,
              modelTurn, toolCalls, results, invoked, updated, aborted,
              followUps, sent, polls>>

hookVars == <<hooks, emit, wrap>>

vars == <<stream, cpc, received, calls, session, loopVars, hookVars>>

(***************************************************************************)
(* JavaScript values                                                       *)
(***************************************************************************)

\* `undefined` where an object is expected.
Undefined == [undefined |-> TRUE]

\* `undefined` where a string is expected.
NoString == "<undefined>"

\* x || '' on an optional string.
OrEmpty(x) == IF x = NoString \/ x = "" THEN "" ELSE x

(***************************************************************************)
(* EventStream                                                             *)
(***************************************************************************)

\* Bound: the number of push/end calls the environment of SpecStream makes.
MaxCalls == 4

\* new EventStream(isComplete, extractResult): `completeOn` is the event type
\* the isComplete predicate accepts ("never": () => false).  `handed` holds
\* the IteratorResults given to waiters whose continuation has not run yet.
NewEventStream(completeOn) ==
    [ completeOn  |-> completeOn,
      queue       |-> <<>>,
      waiting     |-> <<>>,
      handed      |-> <<>>,
      done        |-> FALSE,
      finalResult |-> [resolved |-> FALSE, value |-> Undefined] ]

\* this.isComplete(event)
IsComplete(es, event) == event.type = es.completeOn

\* this.extractResult(event): stored by the constructor, called by no method.
ExtractResult(event) ==
    IF event.type = "agent.end"
    THEN [ interactions  |-> event.interactions,
           interactionId |-> event.interactionId,
           usage         |-> event.usage ]
    ELSE [ value |-> event.value ]

\* this.resolveFinalResult(result): a promise settles once.
ResolveFinalResult(p, result) ==
    IF p.resolved THEN p ELSE [resolved |-> TRUE, value |-> result]

PushLifo(es, event) ==
    IF es.done THEN es
    ELSE LET marked == [es EXCEPT !.done = IsComplete(es, event)]
         IN  IF marked.waiting # <<>>
             THEN [marked EXCEPT !.waiting = Tail(@),
                                 !.handed  = Append(@, [value |-> event, done |-> FALSE])]
             ELSE [marked EXCEPT !.queue = <<event>> \o @]

PushResolving(es, event) ==
    IF es.done THEN es
    ELSE LET marked == [es EXCEPT
                 !.done = IsComplete(es, event),
                 !.finalResult = IF IsComplete(es, event)
                                 THEN ResolveFinalResult(@, ExtractResult(event))
                                 ELSE @]
         IN  IF marked.waiting # <<>>
             THEN [marked EXCEPT !.waiting = Tail(@),
                                 !.handed  = Append(@, [value |-> event, done |-> FALSE])]
             ELSE [marked EXCEPT !.queue = Append(@, event)]

PushAfterDone(es, event) ==
    LET marked == [es EXCEPT !.done = @ \/ IsComplete(es, event)]
    IN  IF marked.waiting # <<>>
        THEN [marked EXCEPT !.waiting = Tail(@),
                            !.handed  = Append(@, [value |-> event, done |-> FALSE])]
        ELSE [marked EXCEPT !.queue = Append(@, event)]

\* push(event)
Push(es, event) ==
    IF es.done THEN es
    ELSE LET marked == [es EXCEPT !.done = IsComplete(es, event)]
         IN  IF marked.waiting # <<>>
             THEN [marked EXCEPT !.waiting = Tail(@),
                                 !.handed  = Append(@, [value |-> event, done |-> FALSE])]
             ELSE [marked EXCEPT !.queue = Append(@, event)]

EndKeepsWaiters(es, result) ==
    [es EXCEPT
        !.done        = TRUE,
        !.finalResult = IF result # Undefined THEN ResolveFinalResult(@, result) ELSE @]

\* end(result?)
End(es, result) ==
    [es EXCEPT
        !.done        = TRUE,
        !.finalResult = IF result # Undefined THEN ResolveFinalResult(@, result) ELSE @,
        !.waiting     = <<>>,
        !.handed      = @ \o [i \in 1..Len(es.waiting) |->
                                 [value |-> Undefined, done |-> TRUE]]]

\* [Symbol.asyncIterator](): one turn of the generator's while loop, up to
\* its yield, its return or its await.
ConsumerNext ==
    /\ cpc \in {"idle", "loop"}
    /\ IF stream.queue # <<>>
       THEN /\ stream' = [stream EXCEPT !.queue = Tail(@)]
            /\ received' = Append(received, Head(stream.queue))
            /\ cpc' = "loop"
       ELSE IF stream.done
       THEN /\ cpc' = "returned"
            /\ UNCHANGED <<stream, received>>
       ELSE /\ stream' = [stream EXCEPT !.waiting = Append(@, "consumer")]
            /\ cpc' = "awaiting"
            /\ UNCHANGED received
    /\ UNCHANGED <<calls, session, hookVars, loopVars>>

\* The continuation of `await new Promise(resolve => waiting.push(resolve))`.
ConsumerResume ==
    /\ cpc = "awaiting"
    /\ stream.handed # <<>>
    /\ stream' = [stream EXCEPT !.handed = Tail(@)]
    /\ IF Head(stream.handed).done
       THEN /\ cpc' = "returned"
            /\ UNCHANGED received
       ELSE /\ cpc' = "loop"
            /\ received' = Append(received, Head(stream.handed).value)
    /\ UNCHANGED <<calls, session, hookVars, loopVars>>

\* How the consumer's `for await` over the stream has ended.  The generator
\* returns; no path of push, end or the generator rejects or throws.
IterationOutcome == IF cpc = "returned" THEN "returned" ELSE "pending"

\* The state of the promise result() returns.  The constructor keeps the
\* promise's resolve function only: the promise is never rejected.
ResultOutcome(es) == IF es.finalResult.resolved THEN "fulfilled" ELSE "pending"

(***************************************************************************)
(* Content blocks, Turns, usage                                            *)
(***************************************************************************)

\* A JavaScript object is a function from its own field names to values.
EmptyObject == [f \in {} |-> 0]

Has(obj, f) == f \in DOMAIN obj

\* obj[f] = value
SetField(obj, f, value) ==
    [g \in DOMAIN obj \cup {f} |-> IF g = f THEN value ELSE obj[g]]

\* obj.f || ''  for a string field
FieldOrEmpty(obj, f) == IF Has(obj, f) THEN OrEmpty(obj[f]) ELSE ""

\* `${obj.f}` in a template literal
FieldText(obj, f) == IF Has(obj, f) /\ obj[f] # NoString THEN obj[f] ELSE "undefined"

\* obj.arguments || {}
ArgumentsOf(obj) == IF Has(obj, "arguments") THEN obj.arguments ELSE EmptyObject

UsageFields ==
    {"total_input_tokens", "total_output_tokens", "total_tokens", "total_thought_tokens"}

AggregateUsageOverwrite(target, source) ==
    [f \in DOMAIN target \cup {g \in DOMAIN source \cap UsageFields : source[g] # 0} |->
        IF f \in DOMAIN source /\ f \in UsageFields /\ source[f] # 0
        THEN source[f]
        ELSE target[f]]

\* aggregateUsage(target, source): the value target holds afterwards
AggregateUsage(target, source) ==
    [f \in DOMAIN target \cup {g \in DOMAIN source \cap UsageFields : source[g] # 0} |->
        IF f \in DOMAIN source /\ f \in UsageFields /\ source[f] # 0
        THEN (IF f \in DOMAIN target THEN target[f] ELSE 0) + source[f]
        ELSE target[f]]

Last(s) == s[Len(s)]

\* s.filter(p => p.type === 'function_call')
RECURSIVE FunctionCalls(_)
FunctionCalls(outputs) ==
    IF outputs = <<>> THEN <<>>
    ELSE IF Has(Head(outputs), "type") /\ Head(outputs).type = "function_call"
         THEN <<Head(outputs)>> \o FunctionCalls(Tail(outputs))
         ELSE FunctionCalls(Tail(outputs))

(***************************************************************************)
(* Inputs of a run: the tools, the provider's answers, the configuration   *)
(***************************************************************************)

\* Bound: the largest maxIterations a run is configured with.
MaxIterations == 2

\* Bound: the Turns sent to the follow-up queue during a run.
MaxSent == 1

\* Bound: the length of a batch handed to executeTools in SpecTools.
MaxBatch == 2

\* Tools.  `does` is what execute does: "returns" a result, "reports" a result
\* with isError true, "throws" synchronously, "rejects" its promise with a
\* non-Error value, "streams" (calls onUpdate, then returns).
AddTool    == [name |-> "add",    does |-> "returns"]
BoomTool   == [name |-> "boom",   does |-> "throws"]
SlowTool   == [name |-> "slow",   does |-> "rejects"]
FetchTool  == [name |-> "fetch",  does |-> "streams"]
AddTool2   == [name |-> "add",    does |-> "reports"]

DefaultTools == <<AddTool, BoomTool, SlowTool, FetchTool, AddTool2>>
OtherTools   == <<AddTool2, BoomTool>>

\* function_call blocks as the provider may send them
CallAdd   == [type |-> "function_call", id |-> "c1", name |-> "add",   arguments |-> [a |-> 3]]
CallBoom  == [type |-> "function_call", id |-> "c2", name |-> "boom",  arguments |-> [a |-> 3]]
CallGhost == [type |-> "function_call", id |-> "c3", name |-> "ghost", arguments |-> [a |-> 3]]
CallSlow  == [type |-> "function_call", id |-> "c4", name |-> "slow"]
CallFetch == [type |-> "function_call", id |-> "c5", name |-> "fetch", arguments |-> [a |-> 3]]
CallNoId  == [type |-> "function_call", name |-> "add", arguments |-> [a |-> 3]]

FunctionCallBlocks == {CallAdd, CallBoom, CallGhost, CallSlow, CallFetch, CallNoId}

\* Provider events (InteractionSSEEvent)
InteractionStart(id) == [event_type |-> "interaction.start", interaction |-> [id |-> id]]
InteractionComplete(id, usage) ==
    [event_type |-> "interaction.complete", interaction |-> [id |-> id, usage |-> usage]]
InteractionCompleteNoUsage(id) ==
    [event_type |-> "interaction.complete", interaction |-> [id |-> id]]
ContentStart(i, type) == [event_type |-> "content.start", index |-> i, content |-> [type |-> type]]
TextDelta(i, text) ==
    [event_type |-> "content.delta", index |-> i, delta |-> [type |-> "text", text |-> text]]
CallDelta(i, fc) == [event_type |-> "content.delta", index |-> i, delta |-> fc]
ContentStop(i) == [event_type |-> "content.stop", index |-> i]
ErrorEvent(message) == [event_type |-> "error", error |-> [message |-> message]]

\* The id the provider gives the n-th interaction of a run.
InteractionIdOf(n) == "int-" \o ToString(n)

TextScript(id) ==
    << InteractionStart(id), TextDelta(0, "ab"), ContentStop(0),
       InteractionComplete(id, [total_tokens |-> 10]) >>

OneCallScript(id) ==
    << InteractionStart(id), CallDelta(0, CallAdd),
       InteractionComplete(id, [total_tokens |-> 15, total_input_tokens |-> 5]) >>

MixedCallsScript(id) ==
    << TextDelta(0, "ab"), CallDelta(1, CallBoom), CallDelta(2, CallFetch),
       InteractionCompleteNoUsage(id) >>

FailingCallsScript(id) ==
    << CallDelta(0, CallSlow), CallDelta(1, CallGhost), CallDelta(2, CallNoId),
       InteractionComplete(id, [total_tokens |-> 0, total_output_tokens |-> 2]) >>

ErrorScript(id) ==
    << InteractionStart(id), ErrorEvent("overloaded") >>

\* What the provider may stream in answer to the n-th request of a run.
Scripts(n) ==
    LET id == InteractionIdOf(n)
    IN  { TextScript(id), OneCallScript(id), MixedCallsScript(id),
          FailingCallsScript(id), ErrorScript(id) }

SeedInput == << [type |-> "text", text |-> "hi"] >>

FollowUpTurn(n) == [role |-> "user", content |-> << [type |-> "text", text |-> "more-" \o ToString(n)] >>]

\* config.transformContext: "none" (not configured), or what the callback
\* does: returns "undefined", returns tools and systemInstruction ("override"),
\* returns interactions ("compact": the latest Turn only), or "throws".
TransformKinds == {"none", "undefined", "override", "compact", "throws"}

AllConfigs ==
    [ input                 : {SeedInput},
      maxIterations         : 0..MaxIterations,
      transformContext      : TransformKinds,
      tools                 : {DefaultTools},
      systemInstruction     : {"SI"},
      previousInteractionId : {NoString},
      signal                : {TRUE},
      getFollowUpMessages   : BOOLEAN ]

\* The configurations checked: a transformContext callback, or a follow-up
\* provider, or neither.
Configs ==
    { c \in AllConfigs : c.transformContext = "none" \/ ~c.getFollowUpMessages }

(***************************************************************************)
(* Agent events and results                                                *)
(***************************************************************************)

EmptyUsage == EmptyObject

AgentEnd(interactions, interactionId, usage) ==
    [ type |-> "agent.end", interactions |-> interactions,
      interactionId |-> interactionId, usage |-> usage ]

LoopResult(interactions, interactionId, usage) ==
    [ interactions |-> interactions, interactionId |-> interactionId, usage |-> usage ]

\* The catch block of agentLoop: push agent.end, end the stream, rethrow.
CaughtWithoutEnd(es) == Push(es, AgentEnd(<<>>, "", EmptyUsage))

Caught(es) ==
    End(Push(es, AgentEnd(<<>>, "", EmptyUsage)), LoopResult(<<>>, "", EmptyUsage))

FinishedEmptyResult(es, ctx) ==
    End(Push(es, AgentEnd(ctx.interactions, ctx.previousInteractionId, ctx.usage)),
        LoopResult(<<>>, "", EmptyUsage))

\* The tail of runLoop: push agent.end, end the stream with the same payload.
Finished(es, ctx) ==
    End(Push(es, AgentEnd(ctx.interactions, ctx.previousInteractionId, ctx.usage)),
        LoopResult(ctx.interactions, ctx.previousInteractionId, ctx.usage))

(***************************************************************************)
(* agentLoop and runLoop                                                   *)
(***************************************************************************)

NoTurn == [role |-> "none", content |-> <<>>]

NewModel ==
    [ script |-> <<>>, contentBlocks |-> <<>>, endedBlocks |-> {},
      interactionId |-> "", usage |-> EmptyUsage ]

\* No agent loop has been started.
LoopIdle ==
    /\ config = [ input |-> <<>>, maxIterations |-> 0, transformContext |-> "none", tools |-> <<>>,
                  systemInstruction |-> NoString, previousInteractionId |-> NoString,
                  signal |-> FALSE, getFollowUpMessages |-> FALSE ]
    /\ context = [ interactions |-> <<>>, previousInteractionId |-> NoString,
                   usage |-> EmptyUsage, tools |-> <<>>, systemInstruction |-> NoString ]
    /\ pc = "idle"
    /\ iteration = 0
    /\ latestTurn = NoTurn
    /\ requests = <<>>
    /\ model = NewModel
    /\ modelTurn = NoTurn
    /\ toolCalls = <<>>
    /\ results = <<>>
    /\ invoked = <<>>
    /\ updated = FALSE
    /\ aborted = FALSE
    /\ followUps = <<>>
    /\ sent = 0
    /\ polls = 0

\* agentLoop(input, config): create the stream and the context, push the seed
\* Turn and agent.start, enter runLoop.
AgentLoop ==
    /\ pc = "start"
    /\ context' = [ interactions |-> << [role |-> "user", content |-> config.input] >>,
                    previousInteractionId |-> config.previousInteractionId,
                    usage |-> EmptyUsage,
                    tools |-> config.tools,
                    systemInstruction |-> config.systemInstruction ]
    /\ stream' = Push(stream, [type |-> "agent.start"])
    /\ pc' = "loopHead"
    /\ UNCHANGED <<cpc, received, calls, session, hookVars, config, iteration, latestTurn, requests, model,
                   modelTurn, toolCalls, results, invoked, updated, aborted, followUps, sent, polls>>

\* while (iteration < maxIterations) { if (signal?.aborted) break; ... latestTurn }
\* A break runs the tail of runLoop.
WhileIgnoringAbort ==
    iteration < config.maxIterations /\ context.interactions # <<>>

WhileOffByOne ==
    /\ iteration <= config.maxIterations
    /\ ~(config.signal /\ aborted)
    /\ context.interactions # <<>>

WhileCondition ==
    /\ iteration < config.maxIterations
    /\ ~(config.signal /\ aborted)
    /\ context.interactions # <<>>

LoopHeadTransformsOnce ==
    /\ pc = "loopHead"
    /\ IF WhileCondition
       THEN /\ iteration' = iteration + 1
            /\ latestTurn' = Last(context.interactions)
            /\ pc' = IF config.transformContext # "none" /\ iteration = 0
                     THEN "transform" ELSE "callModel"
            /\ UNCHANGED stream
       ELSE /\ stream' = Finished(stream, context)
            /\ pc' = "done"
            /\ UNCHANGED <<iteration, latestTurn>>
    /\ UNCHANGED <<cpc, received, calls, session, hookVars, config, context, requests, model, modelTurn,
                   toolCalls, results, invoked, updated, aborted, followUps, sent, polls>>

LoopHead ==
    /\ pc = "loopHead"
    /\ IF WhileCondition
       THEN /\ iteration' = iteration + 1
            /\ latestTurn' = Last(context.interactions)
            /\ pc' = IF config.transformContext # "none" THEN "transform" ELSE "callModel"
            /\ UNCHANGED stream
       ELSE /\ stream' = Finished(stream, context)
            /\ pc' = "done"
            /\ UNCHANGED <<iteration, latestTurn>>
    /\ UNCHANGED <<cpc, received, calls, session, hookVars, config, context, requests, model, modelTurn,
                   toolCalls, results, invoked, updated, aborted, followUps, sent, polls>>

\* await config.transformContext(context), and the overrides it returns
Transformed(ctx) ==
    CASE config.transformContext = "override" ->
            [ctx EXCEPT !.tools = OtherTools, !.systemInstruction = "SI2"]
      [] config.transformContext = "compact" ->
            [ctx EXCEPT !.interactions = <<Last(ctx.interactions)>>]
      [] OTHER -> ctx

TransformContext ==
    /\ pc = "transform"
    /\ IF config.transformContext = "throws"
       THEN /\ stream' = Caught(stream)
            /\ pc' = "failed"
            /\ UNCHANGED context
       ELSE /\ context' = Transformed(context)
            /\ pc' = "callModel"
            /\ UNCHANGED stream
    /\ UNCHANGED <<cpc, received, calls, session, hookVars, config, iteration, latestTurn, requests, model,
                   modelTurn, toolCalls, results, invoked, updated, aborted, followUps, sent, polls>>

\* callModel(...) up to `await client.interactions.create(...)`
Request(input, ctx) ==
    [ input |-> input,
      previous_interaction_id |-> ctx.previousInteractionId,
      tools |-> [i \in 1..Len(ctx.tools) |-> ctx.tools[i].name],
      system_instruction |-> ctx.systemInstruction ]

CallModel ==
    /\ pc = "callModel"
    /\ requests' = Append(requests, Request(latestTurn.content, context))
    /\ model' = [NewModel EXCEPT !.interactionId = OrEmpty(context.previousInteractionId)]
    /\ pc' = "create"
    /\ UNCHANGED <<stream, cpc, received, calls, session, hookVars, config, context, iteration, latestTurn,
                   modelTurn, toolCalls, results, invoked, updated, aborted, followUps, sent, polls>>

\* client.interactions.create resolves with the provider's event stream
CreateResolves ==
    /\ pc = "create"
    /\ \E script \in Scripts(Len(requests)) : model' = [model EXCEPT !.script = script]
    /\ pc' = "modelStream"
    /\ UNCHANGED <<stream, cpc, received, calls, session, hookVars, config, context, iteration, latestTurn,
                   requests, modelTurn, toolCalls, results, invoked, updated, aborted,
                   followUps, sent, polls>>

\* client.interactions.create rejects: the error reaches agentLoop's catch
CreateRejects ==
    /\ pc = "create"
    /\ stream' = Caught(stream)
    /\ pc' = "failed"
    /\ UNCHANGED <<cpc, received, calls, session, hookVars, config, context, iteration, latestTurn, requests,
                   model, modelTurn, toolCalls, results, invoked, updated, aborted,
                   followUps, sent, polls>>

(***************************************************************************)
(* callModel: one provider event per step                                  *)
(***************************************************************************)

\* contentBlocks: a Map in insertion order, as a sequence of index/block pairs
HasBlock(blocks, i) == \E k \in 1..Len(blocks) : blocks[k].index = i

GetBlock(blocks, i) ==
    IF HasBlock(blocks, i)
    THEN blocks[CHOOSE k \in 1..Len(blocks) : blocks[k].index = i].block
    ELSE EmptyObject

SetBlock(blocks, i, block) ==
    IF HasBlock(blocks, i)
    THEN [k \in 1..Len(blocks) |->
            IF blocks[k].index = i THEN [index |-> i, block |-> block] ELSE blocks[k]]
    ELSE Append(blocks, [index |-> i, block |-> block])

\* event.interaction?.id || interactionId
EventInteractionId(m, e) ==
    IF Has(e, "interaction") /\ FieldOrEmpty(e.interaction, "id") # ""
    THEN e.interaction.id
    ELSE m.interactionId

\* The block a content.delta leaves in contentBlocks
DeltaBlock(block, delta) ==
    CASE delta.type = "text" ->
            SetField(SetField(block, "type", "text"),
                     "text", FieldOrEmpty(block, "text") \o delta.text)
      [] delta.type = "function_call" ->
            LET b0 == SetField(block, "type", "function_call")
                b1 == IF FieldOrEmpty(delta, "name") # "" THEN SetField(b0, "name", delta.name) ELSE b0
                b2 == IF FieldOrEmpty(delta, "id") # "" THEN SetField(b1, "id", delta.id) ELSE b1
            IN  IF Has(delta, "arguments") THEN SetField(b2, "arguments", delta.arguments) ELSE b2
      [] OTHER -> block

StopAlwaysEndsText(m, e) ==
    FieldOrEmpty(GetBlock(m.contentBlocks, e.index), "type") = "text"

\* content.stop pushes text.end for a text block whose end was not pushed yet
StopEndsText(m, e) ==
    /\ FieldOrEmpty(GetBlock(m.contentBlocks, e.index), "type") = "text"
    /\ e.index \notin m.endedBlocks

\* callModel's locals after provider event e
AfterEvent(m, e) ==
    CASE e.event_type = "interaction.start" ->
            [m EXCEPT !.interactionId = EventInteractionId(m, e)]
      [] e.event_type = "interaction.complete" ->
            [m EXCEPT !.interactionId = EventInteractionId(m, e),
                      !.usage = IF Has(e.interaction, "usage") THEN e.interaction.usage ELSE @]
      [] e.event_type = "content.start" ->
            [m EXCEPT !.contentBlocks = SetBlock(@, e.index, e.content)]
      [] e.event_type = "content.delta" ->
            [m EXCEPT !.contentBlocks =
                SetBlock(@, e.index, DeltaBlock(GetBlock(m.contentBlocks, e.index), e.delta))]
      [] e.event_type = "content.stop" ->
            IF StopEndsText(m, e)
            THEN [m EXCEPT !.endedBlocks = @ \cup {e.index}]
            ELSE m
      [] OTHER -> m

\* The agent events callModel pushes for provider event e
EventsFor(m, e) ==
    CASE e.event_type = "interaction.start" ->
            << [type |-> "interaction.start", interactionId |-> EventInteractionId(m, e)] >>
      [] e.event_type = "content.start" /\ FieldOrEmpty(e.content, "type") = "text" ->
            << [type |-> "text.start", index |-> e.index] >>
      [] e.event_type = "content.delta" /\ e.delta.type = "text" ->
            << [type |-> "text.delta", index |-> e.index, delta |-> e.delta.text] >>
      [] e.event_type = "content.stop" /\ StopEndsText(m, e) ->
            << [type |-> "text.end", index |-> e.index,
                text |-> IF Has(GetBlock(m.contentBlocks, e.index), "text")
                         THEN GetBlock(m.contentBlocks, e.index).text
                         ELSE NoString] >>
      [] OTHER -> <<>>

RECURSIVE PushAll(_, _)
PushAll(es, events) ==
    IF events = <<>> THEN es ELSE PushAll(Push(es, Head(events)), Tail(events))

\* One turn of `for await (const event of streamResult)`; an error event
\* throws, and the error reaches agentLoop's catch.
ModelEvent ==
    /\ pc = "modelStream"
    /\ model.script # <<>>
    /\ LET e == Head(model.script)
           m == [model EXCEPT !.script = Tail(@)]
       IN  IF e.event_type = "error"
           THEN /\ model' = m
                /\ stream' = Caught(stream)
                /\ pc' = "failed"
           ELSE /\ model' = AfterEvent(m, e)
                /\ stream' = PushAll(stream, EventsFor(m, e))
                /\ pc' = "modelStream"
    /\ UNCHANGED <<cpc, received, calls, session, hookVars, config, context, iteration, latestTurn, requests,
                   modelTurn, toolCalls, results, invoked, updated, aborted, followUps,
                   sent, polls>>

\* outputs: every accumulated block with a type, in first-seen order
RECURSIVE Outputs(_)
Outputs(blocks) ==
    IF blocks = <<>> THEN <<>>
    ELSE IF FieldOrEmpty(Head(blocks).block, "type") # ""
         THEN <<Head(blocks).block>> \o Outputs(Tail(blocks))
         ELSE Outputs(Tail(blocks))

\* config.getFollowUpMessages?.(): the queue's Turns, or undefined (<<>>)
FollowUpMessages == IF config.getFollowUpMessages THEN followUps ELSE <<>>

ToolCallsUnlessQueued(fcs) == fcs # <<>> /\ FollowUpMessages = <<>>

\* if (toolCalls.length > 0): the tools run, and the follow-up check is skipped
ToolCallsFirst(fcs) == fcs # <<>>

\* The provider's stream ended: callModel returns, runLoop updated the
\* context and appends the model Turn; then it starts the tools, or takes
\* the follow-up messages and continues, or stops.
ModelReturns ==
    /\ pc = "modelStream"
    /\ model.script = <<>>
    /\ LET outputs == Outputs(model.contentBlocks)
           turn == [role |-> "model", content |-> outputs]
           fcs == FunctionCalls(outputs)
           ctx == [context EXCEPT !.previousInteractionId = model.interactionId,
                                  !.usage = AggregateUsage(@, model.usage),
                                  !.interactions = Append(@, turn)]
           polled == ~ToolCallsFirst(fcs) /\ config.getFollowUpMessages
           followUp == IF polled THEN FollowUpMessages ELSE <<>>
           end == [type |-> "interaction.end", turn |-> turn]
       IN  /\ modelTurn' = turn
           /\ toolCalls' = fcs
           /\ results' = <<>>
           /\ invoked' = <<>>
           /\ polls' = IF polled THEN polls + 1 ELSE polls
           /\ followUps' = IF polled THEN <<>> ELSE followUps
           /\ IF ToolCallsFirst(fcs)
              THEN /\ context' = ctx
                   /\ pc' = "toolStart"
                   /\ UNCHANGED stream
              ELSE IF followUp # <<>>
              THEN /\ context' = [ctx EXCEPT !.interactions = @ \o followUp]
                   /\ stream' = Push(stream, end)
                   /\ pc' = "loopHead"
              ELSE /\ context' = ctx
                   /\ stream' = Finished(Push(stream, end), ctx)
                   /\ pc' = "done"
    /\ UNCHANGED <<cpc, received, calls, session, hookVars, config, iteration, latestTurn, requests, model,
                   updated, aborted, sent>>

(***************************************************************************)
(* HookRunner (packages/agent/src/hooks/runner.ts) and the tool wrapper    *)
(* (packages/agent/src/utils/wrap-tools.ts)                                *)
(***************************************************************************)

\* Bound: the handlers registered on one HookRunner, all hooks together.
MaxHandlers == 3

HookNames ==
    { "onAgentStart", "onInteractionStart", "beforeToolExecute",
      "afterToolExecute", "onInteractionEnd", "onAgentEnd" }

\* A handler is what it does when called: it returns a value (possibly
\* undefined) or it throws.
Returns(value) == [does |-> "returns", value |-> value]
Throws(message) == [does |-> "throws", message |-> message]

Replacement == [result |-> "redacted", isError |-> {FALSE}]

\* The handlers a caller registers, per hook
HandlersFor(hookName) ==
    CASE hookName = "beforeToolExecute" ->
            { Returns([allow |-> TRUE]),
              Returns([allow |-> TRUE, arguments |-> [a |-> 1]]),
              Returns([allow |-> FALSE, reason |-> "R"]),
              Returns([allow |-> FALSE]),
              Throws("gate failed") }
      [] hookName = "afterToolExecute" ->
            { Returns(Undefined),
              Returns([result |-> Replacement]),
              Throws("after failed") }
      [] hookName = "onAgentStart" ->
            { Returns([systemInstruction |-> "A"]),
              Returns([systemInstruction |-> "B", input |-> "hi"]) }
      [] hookName = "onInteractionStart" ->
            { Returns([interactions |-> <<>>]) }
      [] hookName = "onInteractionEnd" ->
            { Returns(Undefined),
              Throws("observer failed") }
      [] hookName = "onAgentEnd" ->
            { Returns([input |-> "a"]),
              Returns([input |-> "b"]),
              Returns([input |-> ""]),
              Returns(Undefined),
              Throws("end failed") }

\* The event a caller dispatches on a hook
BeforeToolExecuteEvent(tool, toolCallId, args) ==
    [ type |-> "beforeToolExecute", toolName |-> tool.name,
      toolCallId |-> toolCallId, arguments |-> args ]

AfterToolExecuteEvent(tool, toolCallId, result) ==
    [ type |-> "afterToolExecute", toolName |-> tool.name,
      toolCallId |-> toolCallId, result |-> result ]

HookEvent(hookName) ==
    CASE hookName = "beforeToolExecute" -> BeforeToolExecuteEvent(AddTool, "c1", [a |-> 3])
      [] hookName = "afterToolExecute" ->
            AfterToolExecuteEvent(AddTool, "c1", [result |-> "8", isError |-> {}])
      [] hookName = "onAgentStart" ->
            [ type |-> "onAgentStart", tools |-> <<AddTool>>,
              systemInstruction |-> "SI", input |-> <<>> ]
      [] hookName = "onInteractionStart" ->
            [ type |-> "onInteractionStart", interactions |-> <<>> ]
      [] hookName = "onInteractionEnd" ->
            [ type |-> "onInteractionEnd", turn |-> [role |-> "model", content |-> <<>>] ]
      [] hookName = "onAgentEnd" ->
            [ type |-> "onAgentEnd", interactionCount |-> 2 ]

\* this.handlers.get(hookName), <<>> when there is none
HandlersOf(registry, hookName) ==
    IF hookName \in DOMAIN registry THEN registry[hookName] ELSE <<>>

RECURSIVE HandlerCount(_, _)
\* The number of handlers the names of S hold in the registry
HandlerCount(registry, S) ==
    IF S = {} THEN 0
    ELSE LET n == CHOOSE x \in S : TRUE
         IN  Len(registry[n]) + HandlerCount(registry, S \ {n})

ShallowMergeFirstWins(a, b) ==
    [f \in DOMAIN a \cup DOMAIN b |-> IF f \in DOMAIN a THEN a[f] ELSE b[f]]

\* { ...a, ...b }
ShallowMerge(a, b) ==
    [f \in DOMAIN a \cup DOMAIN b |-> IF f \in DOMAIN b THEN b[f] ELSE a[f]]

RECURSIVE Join(_, _)
JoinWithoutSeparator(inputs, separator) ==
    IF inputs = <<>> THEN ""
    ELSE IF Len(inputs) = 1 THEN inputs[1]
    ELSE inputs[1] \o Join(Tail(inputs), separator)

\* inputs.join(separator)
Join(inputs, separator) ==
    IF inputs = <<>> THEN ""
    ELSE IF Len(inputs) = 1 THEN inputs[1]
    ELSE inputs[1] \o separator \o Join(Tail(inputs), separator)

\* No emit call was made.
NoEmit ==
    [ hookName |-> "", event |-> Undefined, awaiting |-> 0, acc |-> Undefined,
      invoked |-> <<>>, status |-> "idle", result |-> Undefined ]

\* The accumulator emit starts with: mergedArguments, inputs, mergedResult
InitialAcc(hookName) ==
    CASE hookName = "beforeToolExecute" -> Undefined
      [] hookName = "onInteractionEnd" -> Undefined
      [] hookName = "onAgentEnd" -> <<>>
      [] OTHER -> EmptyObject

\* What emit returns after its last handler
FinalResult(hookName, acc) ==
    CASE hookName = "beforeToolExecute" -> [allow |-> TRUE, arguments |-> acc]
      [] hookName = "onInteractionEnd" -> Undefined
      [] hookName = "onAgentEnd" ->
            IF Len(acc) > 0 THEN [input |-> Join(acc, "\n\n")] ELSE EmptyObject
      [] OTHER -> acc

\* emit(hookName, event) up to its first await: the default result when no
\* handler is registered, else the first handler is called.
EmitCall(registry, hookName, event) ==
    IF HandlersOf(registry, hookName) = <<>>
    THEN [ NoEmit EXCEPT !.hookName = hookName, !.event = event, !.status = "returned",
                         !.result = IF hookName = "beforeToolExecute"
                                    THEN [allow |-> TRUE]
                                    ELSE EmptyObject ]
    ELSE [ NoEmit EXCEPT !.hookName = hookName, !.event = event, !.status = "running",
                         !.awaiting = 1, !.acc = InitialAcc(hookName),
                         !.invoked = <<[handler |-> 1, event |-> event]>> ]

\* The accumulator after a handler returned result
Accumulate(hookName, acc, result) ==
    CASE hookName = "beforeToolExecute" ->
            IF result # Undefined /\ Has(result, "arguments")
            THEN ShallowMerge(IF acc = Undefined THEN EmptyObject ELSE acc, result.arguments)
            ELSE acc
      [] hookName = "onInteractionEnd" -> acc
      [] hookName = "onAgentEnd" ->
            IF result # Undefined /\ Has(result, "input") /\ result.input # ""
            THEN Append(acc, result.input)
            ELSE acc
      [] OTHER ->
            IF result # Undefined THEN ShallowMerge(acc, result) ELSE acc

FirstBlockWinsLate(e, result) ==
    e.hookName = "beforeToolExecute" /\ result # Undefined /\ ~result.allow /\ e.awaiting > 1

\* if (result && !result.allow) return result
FirstBlockWins(e, result) ==
    e.hookName = "beforeToolExecute" /\ result # Undefined /\ ~result.allow

EmitResumeSwallowing(registry, e) ==
    LET handlers == HandlersOf(registry, e.hookName)
        handler  == handlers[e.awaiting]
        value    == IF handler.does = "throws" THEN Undefined ELSE handler.value
    IN  IF FirstBlockWins(e, value)
        THEN [e EXCEPT !.status = "returned", !.result = value]
        ELSE LET acc == Accumulate(e.hookName, e.acc, value)
             IN  IF e.awaiting < Len(handlers)
                 THEN [e EXCEPT !.acc = acc, !.awaiting = @ + 1,
                                !.invoked = Append(@, [handler |-> e.awaiting + 1,
                                                       event |-> e.event])]
                 ELSE [e EXCEPT !.acc = acc, !.status = "returned",
                                !.result = FinalResult(e.hookName, acc)]

\* emit from the await of a handler to the next await, the return or the throw
EmitResume(registry, e) ==
    LET handlers == HandlersOf(registry, e.hookName)
        handler  == handlers[e.awaiting]
    IN  IF handler.does = "throws"
        THEN [e EXCEPT !.status = "threw", !.result = [error |-> handler.message]]
        ELSE IF FirstBlockWins(e, handler.value)
        THEN [e EXCEPT !.status = "returned", !.result = handler.value]
        ELSE LET acc == Accumulate(e.hookName, e.acc, handler.value)
             IN  IF e.awaiting < Len(handlers)
                 THEN [e EXCEPT !.acc = acc, !.awaiting = @ + 1,
                                !.invoked = Append(@, [handler |-> e.awaiting + 1,
                                                       event |-> e.event])]
                 ELSE [e EXCEPT !.acc = acc, !.status = "returned",
                                !.result = FinalResult(e.hookName, acc)]

\* No wrapped tool was called.
\* `tool` is the tool the wrapper closes over, `outer` the wrappers waiting for
\* this one to return, `executed` the calls of the original tool's execute and
\* `emitted` the hooks dispatched since the outermost execute was called.
NoWrap ==
    [ pc |-> "idle", tool |-> Undefined, toolCallId |-> "", args |-> EmptyObject,
      approval |-> Undefined, executed |-> <<>>, result |-> Undefined,
      returned |-> Undefined, outer |-> <<>>, emitted |-> <<>> ]

\* tools.map((tool) => ({ ...tool, execute: async (...) => { ... } })): the
\* fields of the tool, with an execute that closes over the tool given.
WrapToolWithHooks(tool) ==
    [name |-> tool.name, does |-> "wrapped", execute |-> tool]

\* The tools given to wrapToolsWithHooks: original tools, and tools that
\* wrapToolsWithHooks returned before.
WrappedTools ==
    {AddTool, BoomTool, SlowTool} \cup {WrapToolWithHooks(AddTool), WrapToolWithHooks(BoomTool)}

(***************************************************************************)
(* executeTools: one call of the batch at a time                           *)
(***************************************************************************)

\* tools.find(t => t.name === fc.name): the index of the tool, 0 when absent
FindTool(tools, fc) ==
    IF Has(fc, "name") /\ \E i \in 1..Len(tools) : tools[i].name = fc.name
    THEN CHOOSE i \in 1..Len(tools) :
            /\ tools[i].name = fc.name
            /\ \A j \in 1..(i - 1) : tools[j].name # fc.name
    ELSE 0

\* An optional boolean is the set of its values: {} is undefined.
\* What the tools of the model return when their promise resolves.
ToolReturn(tool) ==
    CASE tool.does = "returns" -> [result |-> "8", isError |-> {}]
      [] tool.does = "reports" -> [result |-> "denied", isError |-> {TRUE}]
      [] tool.does = "streams" -> [result |-> "page", isError |-> {FALSE}]

\* error instanceof Error ? error.message : String(error)
ToolErrorMessage(tool) ==
    CASE tool.does = "throws"  -> "boom"
      [] tool.does = "rejects" -> "timeout"

\* The catch of executeTools
CaughtToolError(tool) ==
    [result |-> "Error: " \o ToolErrorMessage(tool), isError |-> {TRUE}]

NotFound(fc) ==
    [result |-> "Tool " \o FieldText(fc, "name") \o " not found", isError |-> {TRUE}]

ToolEnd(fc, toolResult) ==
    [ type |-> "tool.end", id |-> FieldOrEmpty(fc, "id"), name |-> FieldOrEmpty(fc, "name"),
      result |-> toolResult.result, isError |-> TRUE \in toolResult.isError ]

FunctionResultSwapped(fc, toolResult) ==
    [ type |-> "function_result", call_id |-> FieldOrEmpty(fc, "name"),
      name |-> FieldOrEmpty(fc, "id"),
      result |-> toolResult.result, is_error |-> TRUE \in toolResult.isError ]

FunctionResult(fc, toolResult) ==
    [ type |-> "function_result", call_id |-> FieldOrEmpty(fc, "id"),
      name |-> FieldOrEmpty(fc, "name"),
      result |-> toolResult.result, is_error |-> TRUE \in toolResult.isError ]

\* The call executeTools is at
CurrentCall == toolCalls[Len(results) + 1]

ToolStartConcurrent ==
    /\ pc = "toolStart"
    /\ Len(results) < Len(toolCalls)
    /\ LET fc == CurrentCall
           start(c) == [ type |-> "tool.start", id |-> FieldOrEmpty(c, "id"),
                         name |-> FieldOrEmpty(c, "name"), arguments |-> ArgumentsOf(c) ]
           started == IF Len(results) = 0
                      THEN PushAll(stream, [k \in 1..Len(toolCalls) |-> start(toolCalls[k])])
                      ELSE stream
           t == FindTool(context.tools, fc)
       IN  IF t = 0
           THEN /\ stream' = Push(started, ToolEnd(fc, NotFound(fc)))
                /\ results' = Append(results, FunctionResult(fc, NotFound(fc)))
                /\ UNCHANGED <<pc, invoked>>
           ELSE IF context.tools[t].does = "throws"
           THEN /\ stream' = Push(started, ToolEnd(fc, CaughtToolError(context.tools[t])))
                /\ results' = Append(results, FunctionResult(fc, CaughtToolError(context.tools[t])))
                /\ invoked' = Append(invoked, <<Len(results) + 1, t>>)
                /\ UNCHANGED pc
           ELSE /\ stream' = started
                /\ invoked' = Append(invoked, <<Len(results) + 1, t>>)
                /\ pc' = "toolAwait"
                /\ UNCHANGED results
    /\ updated' = FALSE
    /\ UNCHANGED <<cpc, received, calls, session, hookVars, config, context, iteration, latestTurn, requests,
                   model, modelTurn, toolCalls, aborted, followUps, sent, polls>>

\* The head of the for loop: push tool.start, look the tool up, call execute.
\* A missing tool and a synchronous throw complete the call in the same step;
\* the execute of a wrapped tool runs up to its dispatch of beforeToolExecute.
ToolStart ==
    /\ pc = "toolStart"
    /\ Len(results) < Len(toolCalls)
    /\ LET fc == CurrentCall
           started == Push(stream, [ type |-> "tool.start", id |-> FieldOrEmpty(fc, "id"),
                                     name |-> FieldOrEmpty(fc, "name"),
                                     arguments |-> ArgumentsOf(fc) ])
           t == FindTool(context.tools, fc)
       IN  IF t = 0
           THEN /\ stream' = Push(started, ToolEnd(fc, NotFound(fc)))
                /\ results' = Append(results, FunctionResult(fc, NotFound(fc)))
                /\ UNCHANGED <<pc, invoked>>
           ELSE IF context.tools[t].does = "throws"
           THEN /\ stream' = Push(started, ToolEnd(fc, CaughtToolError(context.tools[t])))
                /\ results' = Append(results, FunctionResult(fc, CaughtToolError(context.tools[t])))
                /\ invoked' = Append(invoked, <<Len(results) + 1, t>>)
                /\ UNCHANGED pc
           ELSE /\ stream' = started
                /\ invoked' = Append(invoked, <<Len(results) + 1, t>>)
                /\ pc' = "toolAwait"
                /\ UNCHANGED results
    /\ LET fc == CurrentCall
           t == FindTool(context.tools, fc)
       IN  IF t # 0 /\ context.tools[t].does = "wrapped"
           THEN /\ wrap' = [NoWrap EXCEPT !.pc = "before", !.tool = context.tools[t].execute,
                                          !.toolCallId = FieldOrEmpty(fc, "id"),
                                          !.args = ArgumentsOf(fc),
                                          !.emitted = <<"beforeToolExecute">>]
                /\ emit' = EmitCall(hooks, "beforeToolExecute",
                                    BeforeToolExecuteEvent(context.tools[t].execute,
                                                           FieldOrEmpty(fc, "id"),
                                                           ArgumentsOf(fc)))
           ELSE UNCHANGED <<emit, wrap>>
    /\ updated' = FALSE
    /\ UNCHANGED <<cpc, received, calls, session, hooks, config, context, iteration, latestTurn, requests,
                   model, modelTurn, toolCalls, aborted, followUps, sent, polls>>

\* The tool in flight
CurrentTool == context.tools[invoked[Len(invoked)][2]]

\* The tool calls onUpdate: tool.delta
ToolUpdate ==
    /\ pc = "toolAwait"
    /\ CurrentTool.does = "streams"
    /\ ~updated
    /\ updated' = TRUE
    /\ stream' = Push(stream, [ type |-> "tool.delta", id |-> FieldOrEmpty(CurrentCall, "id"),
                                name |-> FieldOrEmpty(CurrentCall, "name"),
                                partialResult |-> [result |-> "partial"] ])
    /\ UNCHANGED <<cpc, received, calls, session, hookVars, config, context, pc, iteration, latestTurn, requests,
                   model, modelTurn, toolCalls, results, invoked, aborted, followUps, sent,
                   polls>>

\* The tool's promise settles: its result, or the caught rejection; for a
\* wrapped tool, what the wrapper returned or the caught error it threw
Settled(tool) ==
    IF tool.does = "wrapped"
    THEN IF wrap.pc = "threw"
         THEN [result |-> "Error: " \o wrap.returned.error, isError |-> {TRUE}]
         ELSE wrap.returned
    ELSE IF tool.does = "rejects" THEN CaughtToolError(tool) ELSE ToolReturn(tool)

ToolSettlesUncaught ==
    /\ pc = "toolAwait"
    /\ IF CurrentTool.does = "rejects"
       THEN /\ stream' = Caught(stream)
            /\ pc' = "failed"
            /\ UNCHANGED results
       ELSE /\ stream' = Push(stream, ToolEnd(CurrentCall, Settled(CurrentTool)))
            /\ results' = Append(results, FunctionResult(CurrentCall, Settled(CurrentTool)))
            /\ pc' = "toolStart"
    /\ UNCHANGED <<cpc, received, calls, session, hookVars, config, context, iteration, latestTurn, requests,
                   model, modelTurn, toolCalls, invoked, updated, aborted, followUps, sent,
                   polls>>

ToolSettles ==
    /\ pc = "toolAwait"
    /\ (CurrentTool.does = "wrapped") => (wrap.pc \in {"returned", "threw"} /\ wrap.outer = <<>>)
    /\ stream' = Push(stream, ToolEnd(CurrentCall, Settled(CurrentTool)))
    /\ results' = Append(results, FunctionResult(CurrentCall, Settled(CurrentTool)))
    /\ pc' = "toolStart"
    /\ UNCHANGED <<cpc, received, calls, session, hookVars, config, context, iteration, latestTurn, requests,
                   model, modelTurn, toolCalls, invoked, updated, aborted, followUps, sent,
                   polls>>

ToolsReturnEarly ==
    /\ pc = "toolStart"
    /\ results # <<>>
    /\ context' = [context EXCEPT !.interactions = Append(@, [role |-> "user", content |-> results])]
    /\ stream' = Push(stream, [type |-> "interaction.end", turn |-> modelTurn])
    /\ pc' = "loopHead"
    /\ UNCHANGED <<cpc, received, calls, session, hookVars, config, iteration, latestTurn, requests, model,
                   modelTurn, toolCalls, results, invoked, updated, aborted, followUps, sent,
                   polls>>

\* executeTools returned: runLoop appends the results as a user Turn, pushes
\* interaction.end and continues.
ToolsReturn ==
    /\ pc = "toolStart"
    /\ Len(results) = Len(toolCalls)
    /\ context' = [context EXCEPT !.interactions = Append(@, [role |-> "user", content |-> results])]
    /\ stream' = Push(stream, [type |-> "interaction.end", turn |-> modelTurn])
    /\ pc' = "loopHead"
    /\ UNCHANGED <<cpc, received, calls, session, hookVars, config, iteration, latestTurn, requests, model,
                   modelTurn, toolCalls, results, invoked, updated, aborted, followUps, sent,
                   polls>>

(***************************************************************************)
(* The tool wrapper and the dispatch of hooks, step by step                *)
(***************************************************************************)

BlockedWithoutReason(approval) ==
    [result |-> "Blocked: Tool execution blocked by hook", isError |-> {TRUE}]

\* `Blocked: ${approval.reason || 'Tool execution blocked by hook'}`
Blocked(approval) ==
    [ result |-> "Blocked: " \o (IF FieldOrEmpty(approval, "reason") # ""
                                 THEN approval.reason
                                 ELSE "Tool execution blocked by hook"),
      isError |-> {TRUE} ]

\* approval.arguments ?? args
EffectiveArgs(approval, args) ==
    IF Has(approval, "arguments") /\ approval.arguments # Undefined
    THEN approval.arguments
    ELSE args

\* The catch around the real tool's execute
WrapCaught(tool) ==
    [result |-> "Error: " \o ToolErrorMessage(tool), isError |-> {TRUE}]

\* HookRunner.on(hookName, handler)
On ==
    /\ emit.status = "idle"
    /\ wrap.pc = "idle"
    /\ HandlerCount(hooks, DOMAIN hooks) < MaxHandlers
    /\ \E hookName \in HookNames : \E handler \in HandlersFor(hookName) :
          hooks' = IF hookName \in DOMAIN hooks
                   THEN [hooks EXCEPT ![hookName] = Append(@, handler)]
                   ELSE SetField(hooks, hookName, <<handler>>)
    /\ UNCHANGED <<stream, cpc, received, calls, session, loopVars, emit, wrap>>

\* HookRunner.off(hookName)
Off ==
    /\ emit.status = "idle"
    /\ wrap.pc = "idle"
    /\ \E hookName \in DOMAIN hooks :
          hooks' = [h \in DOMAIN hooks \ {hookName} |-> hooks[h]]
    /\ UNCHANGED <<stream, cpc, received, calls, session, loopVars, emit, wrap>>

\* HookRunner.clear()
Clear ==
    /\ emit.status = "idle"
    /\ wrap.pc = "idle"
    /\ hooks # EmptyObject
    /\ hooks' = EmptyObject
    /\ UNCHANGED <<stream, cpc, received, calls, session, loopVars, emit, wrap>>

\* A caller dispatches a hook: hooks.emit(hookName, event)
Emit ==
    /\ emit.status = "idle"
    /\ wrap.pc = "idle"
    /\ \E hookName \in HookNames : emit' = EmitCall(hooks, hookName, HookEvent(hookName))
    /\ UNCHANGED <<stream, cpc, received, calls, session, loopVars, hooks, wrap>>

\* The handler emit awaits has settled
HandlerSettles ==
    /\ emit.status = "running"
    /\ emit' = EmitResume(hooks, emit)
    /\ UNCHANGED <<stream, cpc, received, calls, session, loopVars, hooks, wrap>>

\* The wrapped tool's execute is called: it emits beforeToolExecute
WrappedExecute ==
    /\ emit.status = "idle"
    /\ wrap.pc = "idle"
    /\ \E tool \in WrappedTools :
          /\ wrap' = [NoWrap EXCEPT !.pc = "before", !.tool = tool, !.toolCallId = "c1",
                                    !.args = [a |-> 3],
                                    !.emitted = <<"beforeToolExecute">>]
          /\ emit' = EmitCall(hooks, "beforeToolExecute",
                              BeforeToolExecuteEvent(tool, "c1", [a |-> 3]))
    /\ UNCHANGED <<stream, cpc, received, calls, session, loopVars, hooks>>

\* wrapped execute after `await hooks.emit('beforeToolExecute', ...)`: the
\* block, or the call of the real tool; a tool that throws at once is caught
\* and afterToolExecute is emitted in the same step.
GateDecided ==
    /\ wrap.pc = "before"
    /\ emit.status \in {"returned", "threw"}
    /\ IF emit.status = "threw"
       THEN /\ wrap' = [wrap EXCEPT !.pc = "threw", !.returned = emit.result]
            /\ UNCHANGED emit
       ELSE IF ~emit.result.allow
       THEN /\ wrap' = [wrap EXCEPT !.pc = "returned", !.approval = emit.result,
                                    !.returned = Blocked(emit.result)]
            /\ UNCHANGED emit
       ELSE IF wrap.tool.does = "wrapped"
       THEN LET waiting == [wrap EXCEPT !.pc = "execute", !.approval = emit.result]
            IN  /\ wrap' = [NoWrap EXCEPT
                                !.pc = "before", !.tool = wrap.tool.execute,
                                !.toolCallId = wrap.toolCallId,
                                !.args = EffectiveArgs(emit.result, wrap.args),
                                !.executed = wrap.executed,
                                !.outer = Append(wrap.outer, waiting),
                                !.emitted = Append(wrap.emitted, "beforeToolExecute")]
                /\ emit' = EmitCall(hooks, "beforeToolExecute",
                                    BeforeToolExecuteEvent(wrap.tool.execute, wrap.toolCallId,
                                                           EffectiveArgs(emit.result, wrap.args)))
       ELSE LET called == [wrap EXCEPT !.approval = emit.result,
                                       !.executed = Append(@, EffectiveArgs(emit.result, wrap.args))]
            IN  IF wrap.tool.does = "throws"
                THEN /\ wrap' = [called EXCEPT !.pc = "after", !.result = WrapCaught(wrap.tool),
                                               !.emitted = Append(@, "afterToolExecute")]
                     /\ emit' = EmitCall(hooks, "afterToolExecute",
                                         AfterToolExecuteEvent(wrap.tool, wrap.toolCallId,
                                                               WrapCaught(wrap.tool)))
                ELSE /\ wrap' = [called EXCEPT !.pc = "execute"]
                     /\ UNCHANGED emit
    /\ UNCHANGED <<stream, cpc, received, calls, session, loopVars, hooks>>

\* The real tool's promise settles; afterToolExecute is emitted
RealToolSettles ==
    /\ wrap.pc = "execute"
    /\ LET result == IF wrap.tool.does = "rejects"
                     THEN WrapCaught(wrap.tool)
                     ELSE ToolReturn(wrap.tool)
       IN  /\ wrap' = [wrap EXCEPT !.pc = "after", !.result = result,
                                   !.emitted = Append(@, "afterToolExecute")]
           /\ emit' = EmitCall(hooks, "afterToolExecute",
                               AfterToolExecuteEvent(wrap.tool, wrap.toolCallId, result))
    /\ UNCHANGED <<stream, cpc, received, calls, session, loopVars, hooks>>

\* The tool the wrapper closes over is itself a wrapper and its execute has
\* settled: the waiting wrapper takes what it returned, or catches what it
\* threw, and emits afterToolExecute.
WrappedToolSettles ==
    /\ wrap.pc \in {"returned", "threw"}
    /\ wrap.outer # <<>>
    /\ LET waiting == Last(wrap.outer)
           result == IF wrap.pc = "threw"
                     THEN [result |-> "Error: " \o wrap.returned.error, isError |-> {TRUE}]
                     ELSE wrap.returned
       IN  /\ wrap' = [waiting EXCEPT !.pc = "after", !.result = result,
                                      !.executed = wrap.executed,
                                      !.emitted = Append(wrap.emitted, "afterToolExecute")]
           /\ emit' = EmitCall(hooks, "afterToolExecute",
                               AfterToolExecuteEvent(waiting.tool, waiting.toolCallId, result))
    /\ UNCHANGED <<stream, cpc, received, calls, session, loopVars, hooks>>

AfterDecidedIgnoringReplacement ==
    /\ wrap.pc = "after"
    /\ emit.status \in {"returned", "threw"}
    /\ wrap' = IF emit.status = "threw"
               THEN [wrap EXCEPT !.pc = "threw", !.returned = emit.result]
               ELSE [wrap EXCEPT !.pc = "returned", !.returned = wrap.result]
    /\ UNCHANGED <<stream, cpc, received, calls, session, loopVars, hooks, emit>>

\* wrapped execute after `await hooks.emit('afterToolExecute', ...)`:
\* return modified.result ?? result
AfterDecided ==
    /\ wrap.pc = "after"
    /\ emit.status \in {"returned", "threw"}
    /\ wrap' = IF emit.status = "threw"
               THEN [wrap EXCEPT !.pc = "threw", !.returned = emit.result]
               ELSE [wrap EXCEPT !.pc = "returned",
                                 !.returned = IF Has(emit.result, "result")
                                              THEN emit.result.result
                                              ELSE wrap.result]
    /\ UNCHANGED <<stream, cpc, received, calls, session, loopVars, hooks, emit>>

\* No hook is registered and nothing is dispatched.
HooksIdle ==
    /\ hooks = EmptyObject
    /\ emit = NoEmit
    /\ wrap = NoWrap

(***************************************************************************)
(* AgentSession (packages/agent/src/session.ts)                            *)
(***************************************************************************)

\* Bounds: the largest maxInjectionLoops option, and the numbers of stream(),
\* send() and abort() calls the user of a session makes.
MaxInjectionLoops == 2

MaxStreams == 2

MaxSends == 2

MaxAborts == 1

\* CONFIG.maxIterations, used when agentLoop is given no maxIterations
DefaultMaxIterations == 100

\* wrapToolsWithHooks(tools, hooks)
WrapToolsWithHooks(tools) == [i \in 1..Len(tools) |-> WrapToolWithHooks(tools[i])]

\* The tools and the system instruction a session is constructed with
SessionTools == <<AddTool, BoomTool>>

\* this.hooks.has(hookName)
HasHandlers(registry, hookName) == HandlersOf(registry, hookName) # <<>>

\* The handlers the user of a session registers before the first message:
\* onAgentStart returns the 'add' tool of the event's tools, a system
\* instruction and an input; onAgentEnd injects "a", returns nothing, or
\* throws; onInteractionEnd returns or throws.
StartHandler ==
    Returns([ tools |-> <<WrapToolWithHooks(AddTool)>>, systemInstruction |-> "B",
              input |-> "hi" ])

SessionRegistries ==
    { EmptyObject,
      [onAgentEnd |-> <<Returns([input |-> "a"])>>],
      [onAgentStart |-> <<StartHandler>>, onAgentEnd |-> <<Returns(Undefined)>>],
      [onAgentStart |-> <<StartHandler>>, onAgentEnd |-> <<Returns([input |-> "a"])>>,
       onInteractionStart |-> <<Returns([interactions |-> <<>>])>>],
      [onInteractionStart |-> <<Returns([interactions |-> <<>>])>>,
       onInteractionEnd |-> <<Returns(Undefined)>>],
      [onInteractionEnd |-> <<Throws("observer failed")>>],
      [onAgentEnd |-> <<Throws("end failed")>>] }

\* formatInput(input) and the Turn send builds
UserTurn(text) == [role |-> "user", content |-> << [type |-> "text", text |-> text] >>]

\* The n-th message the user sends
Message(n) == "msg-" \o ToString(n)

\* new AgentSession(options).  `pc` is the position of stream(): "idle" when
\* no call is in flight; `outcome` is how the last call ended.  The queue of
\* the session is the variable followUps.  `seeds` is the inputs given to
\* agentLoop so far, `emitted` the hooks the session has dispatched, and
\* `runs` and `yielded` the number of agentLoop calls and the events yielded
\* by the current stream() call.
NewSession(maxInjectionLoops) ==
    [ pc |-> "idle", outcome |-> "none", result |-> Undefined,
      hasStarted |-> FALSE, maxInjectionLoops |-> maxInjectionLoops,
      injectionCount |-> 0, firstTurn |-> NoTurn,
      abortController |-> FALSE, currentStream |-> FALSE,
      originalTools |-> SessionTools,
      systemInstruction |-> "SI",
      context |-> [ interactions |-> <<>>, previousInteractionId |-> NoString,
                    usage |-> EmptyUsage, tools |-> WrapToolsWithHooks(SessionTools),
                    systemInstruction |-> "SI" ],
      handled |-> 0, seeds |-> <<>>, emitted |-> <<>>, runs |-> 0, yielded |-> <<>>,
      streams |-> 0, sends |-> 0, aborts |-> 0 ]

\* No session exists.
NoSession == NewSession(0)

\* The agent loop is at an await, or not running: other code can run.
LoopSuspended == pc \in {"idle", "transform", "create", "modelStream", "toolAwait", "done", "failed"}

\* session.on(hookName, handler), for each handler of a registry
SessionOn ==
    /\ session.pc = "idle"
    /\ session.streams = 0 /\ session.sends = 0 /\ session.aborts = 0
    /\ hooks = EmptyObject
    /\ hooks' \in SessionRegistries \ {EmptyObject}
    /\ UNCHANGED <<stream, cpc, received, calls, session, loopVars, emit, wrap>>

\* session.send(input)
SessionSend ==
    /\ LoopSuspended
    /\ session.sends < MaxSends
    /\ followUps' = Append(followUps, UserTurn(Message(session.sends + 1)))
    /\ session' = [session EXCEPT !.sends = @ + 1]
    /\ UNCHANGED <<stream, cpc, received, calls, hookVars, config, context, pc, iteration,
                   latestTurn, requests, model, modelTurn, toolCalls, results, invoked,
                   updated, aborted, sent, polls>>

SessionAbortWithoutSignal ==
    /\ LoopSuspended
    /\ session.aborts < MaxAborts
    /\ followUps' = <<>>
    /\ session' = [session EXCEPT !.abortController = FALSE, !.currentStream = FALSE,
                                  !.aborts = @ + 1]
    /\ UNCHANGED <<stream, cpc, received, calls, hookVars, config, context, pc, iteration,
                   latestTurn, requests, model, modelTurn, toolCalls, results, invoked,
                   updated, aborted, sent, polls>>

\* session.abort()
SessionAbort ==
    /\ LoopSuspended
    /\ session.aborts < MaxAborts
    /\ aborted' = IF session.abortController THEN TRUE ELSE aborted
    /\ followUps' = <<>>
    /\ session' = [session EXCEPT !.abortController = FALSE, !.currentStream = FALSE,
                                  !.aborts = @ + 1]
    /\ UNCHANGED <<stream, cpc, received, calls, hookVars, config, context, pc, iteration,
                   latestTurn, requests, model, modelTurn, toolCalls, results, invoked,
                   updated, sent, polls>>

StartedKeepingTools(s, result) ==
    IF FieldOrEmpty(result, "systemInstruction") # ""
    THEN [s EXCEPT !.context.systemInstruction = result.systemInstruction]
    ELSE s

\* updateTools(tools) and updateSystemInstruction(instruction), as stream()
\* applies what onAgentStart returned
Started(s, result) ==
    LET withTools ==
            IF Has(result, "tools")
            THEN [s EXCEPT !.originalTools = result.tools,
                           !.context.tools = WrapToolsWithHooks(result.tools)]
            ELSE s
    IN  IF FieldOrEmpty(result, "systemInstruction") # ""
        THEN [withTools EXCEPT !.systemInstruction = result.systemInstruction,
                               !.context.systemInstruction = result.systemInstruction]
        ELSE withTools

\* stream(), up to the first await: nothing to do on an empty queue; else
\* the first Turn is taken and, on the first call, onAgentStart is emitted.
\* The user calls stream() when no call is in flight and the loop of a call
\* that ended by an error has come to rest.
SessionStream ==
    /\ session.pc = "idle"
    /\ pc \in {"idle", "done", "failed"}
    /\ session.streams < MaxStreams
    /\ LET called == [session EXCEPT !.streams = @ + 1, !.yielded = <<>>, !.runs = 0,
                                     !.outcome = "none", !.result = Undefined]
       IN  IF followUps = <<>>
           THEN /\ session' = [called EXCEPT !.outcome = "returned"]
                /\ UNCHANGED <<followUps, emit>>
           ELSE LET taken == [called EXCEPT !.firstTurn = Head(followUps),
                                            !.injectionCount = 0, !.hasStarted = TRUE]
                IN  /\ followUps' = Tail(followUps)
                    /\ IF ~session.hasStarted /\ HasHandlers(hooks, "onAgentStart")
                       THEN /\ emit' = EmitCall(hooks, "onAgentStart",
                                           [ type |-> "onAgentStart",
                                             tools |-> session.context.tools,
                                             systemInstruction |-> session.context.systemInstruction,
                                             input |-> <<>> ])
                            /\ session' = [taken EXCEPT !.pc = "agentStart",
                                                        !.emitted = Append(@, "onAgentStart")]
                       ELSE /\ session' = [taken EXCEPT !.pc = "loop"]
                            /\ UNCHANGED emit
    /\ UNCHANGED <<stream, cpc, received, calls, hooks, wrap, config, context, pc, iteration,
                   latestTurn, requests, model, modelTurn, toolCalls, results, invoked,
                   updated, aborted, sent, polls>>

\* stream() after `await this.hooks.emit('onAgentStart', ...)`
SessionStarted ==
    /\ session.pc = "agentStart"
    /\ emit.status \in {"returned", "threw"}
    /\ IF emit.status = "threw"
       THEN /\ session' = [session EXCEPT !.pc = "idle", !.outcome = "threw",
                                          !.result = emit.result]
            /\ UNCHANGED followUps
       ELSE /\ session' = [Started(session, emit.result) EXCEPT !.pc = "loop"]
            /\ followUps' = IF FieldOrEmpty(emit.result, "input") # ""
                            THEN Append(followUps, UserTurn(emit.result.input))
                            ELSE followUps
    /\ UNCHANGED <<stream, cpc, received, calls, hookVars, config, context, pc, iteration,
                   latestTurn, requests, model, modelTurn, toolCalls, results, invoked,
                   updated, aborted, sent, polls>>

\* The head of `while (true)`: a new AbortController, and agentLoop is called
\* with the content of firstTurn.
SessionRunLoop ==
    /\ session.pc = "loop"
    /\ LoopSuspended
    /\ config' = [ input |-> session.firstTurn.content,
                   maxIterations |-> DefaultMaxIterations,
                   transformContext |-> "none",
                   tools |-> session.context.tools,
                   systemInstruction |-> session.systemInstruction,
                   previousInteractionId |-> session.context.previousInteractionId,
                   signal |-> TRUE,
                   getFollowUpMessages |-> TRUE ]
    /\ stream' = NewEventStream("agent.end")
    /\ cpc' = "idle"
    /\ received' = <<>>
    /\ pc' = "start"
    /\ iteration' = 0
    /\ latestTurn' = NoTurn
    /\ model' = NewModel
    /\ modelTurn' = NoTurn
    /\ toolCalls' = <<>>
    /\ results' = <<>>
    /\ invoked' = <<>>
    /\ updated' = FALSE
    /\ aborted' = FALSE
    /\ session' = [session EXCEPT !.pc = "forAwait", !.abortController = TRUE,
                                  !.currentStream = TRUE, !.handled = 0, !.runs = @ + 1,
                                  !.seeds = Append(@, session.firstTurn.content)]
    /\ UNCHANGED <<calls, hookVars, context, requests, followUps, sent, polls>>

\* `for await (const event of stream)`: the session asks the stream for the
\* next event.
SessionNext ==
    /\ session.pc = "forAwait"
    /\ LoopSuspended
    /\ Len(received) = session.handled
    /\ ConsumerNext \/ ConsumerResume

\* `yield event`, the consumer of stream() asking for the next event at once,
\* and the rest of the body: result is set on agent.end.
Yielded(s, event) ==
    [s EXCEPT !.pc = "forAwait",
              !.yielded = Append(@, event),
              !.result = IF event.type = "agent.end"
                         THEN LoopResult(event.interactions,
                                         OrEmpty(s.context.previousInteractionId),
                                         s.context.usage)
                         ELSE @]

SessionEventYieldsFirst ==
    /\ session.pc = "forAwait"
    /\ LoopSuspended
    /\ Len(received) > session.handled
    /\ LET event == received[session.handled + 1]
           seen == [session EXCEPT
                       !.handled = @ + 1,
                       !.context.previousInteractionId =
                           IF event.type = "interaction.start" THEN event.interactionId ELSE @,
                       !.context.interactions =
                           IF event.type = "agent.end" THEN event.interactions ELSE @]
       IN  IF event.type = "interaction.end" /\ HasHandlers(hooks, "onInteractionEnd")
           THEN /\ emit' = EmitCall(hooks, "onInteractionEnd",
                                    [type |-> "onInteractionEnd", turn |-> event.turn])
                /\ session' = [Yielded(seen, event) EXCEPT !.emitted = Append(@, "onInteractionEnd")]
           ELSE /\ session' = Yielded(seen, event)
                /\ UNCHANGED emit
    /\ UNCHANGED <<stream, cpc, received, calls, hooks, wrap, loopVars>>

\* The body of the for await up to its first await or through its yield: the
\* context is updated, onInteractionEnd is emitted, the event is yielded.
SessionEvent ==
    /\ session.pc = "forAwait"
    /\ LoopSuspended
    /\ Len(received) > session.handled
    /\ LET event == received[session.handled + 1]
           seen == [session EXCEPT
                       !.handled = @ + 1,
                       !.context.previousInteractionId =
                           IF event.type = "interaction.start" THEN event.interactionId ELSE @,
                       !.context.interactions =
                           IF event.type = "agent.end" THEN event.interactions ELSE @]
       IN  IF event.type = "interaction.end" /\ HasHandlers(hooks, "onInteractionEnd")
           THEN /\ emit' = EmitCall(hooks, "onInteractionEnd",
                                    [type |-> "onInteractionEnd", turn |-> event.turn])
                /\ session' = [seen EXCEPT !.pc = "interactionEnd",
                                           !.emitted = Append(@, "onInteractionEnd")]
           ELSE /\ session' = Yielded(seen, event)
                /\ UNCHANGED emit
    /\ UNCHANGED <<stream, cpc, received, calls, hooks, wrap, loopVars>>

\* The body of the for await after `await this.hooks.emit('onInteractionEnd',
\* ...)`: the event is yielded; an error leaves through the finally block.
SessionObserved ==
    /\ session.pc = "interactionEnd"
    /\ emit.status \in {"returned", "threw"}
    /\ session' = IF emit.status = "threw"
                  THEN [session EXCEPT !.pc = "idle", !.outcome = "threw",
                                       !.result = emit.result,
                                       !.currentStream = FALSE, !.abortController = FALSE]
                  ELSE Yielded(session, received[session.handled])
    /\ UNCHANGED <<stream, cpc, received, calls, hookVars, loopVars>>

MayInjectOffByOne(registry, s) ==
    HasHandlers(registry, "onAgentEnd") /\ s.injectionCount <= s.maxInjectionLoops

\* this.hooks.has('onAgentEnd') && injectionCount < this.maxInjectionLoops
MayInject(registry, s) ==
    HasHandlers(registry, "onAgentEnd") /\ s.injectionCount < s.maxInjectionLoops

\* The events are exhausted: `await stream.result()`, the context takes the
\* result, the finally block runs, and onAgentEnd is emitted while
\* injectionCount is below maxInjectionLoops; else stream() returns.
SessionResult ==
    /\ session.pc = "forAwait"
    /\ LoopSuspended
    /\ cpc = "returned"
    /\ Len(received) = session.handled
    /\ stream.finalResult.resolved
    /\ LET loopResult == stream.finalResult.value
           finished == [session EXCEPT
                           !.context.previousInteractionId = loopResult.interactionId,
                           !.context.usage = loopResult.usage,
                           !.context.interactions = loopResult.interactions,
                           !.result = loopResult,
                           !.currentStream = FALSE, !.abortController = FALSE]
       IN  IF MayInject(hooks, session)
           THEN /\ emit' = EmitCall(hooks, "onAgentEnd",
                                    [ type |-> "onAgentEnd",
                                      interactionCount |-> Len(loopResult.interactions) ])
                /\ session' = [finished EXCEPT !.pc = "agentEnd",
                                               !.emitted = Append(@, "onAgentEnd")]
           ELSE /\ session' = [finished EXCEPT !.pc = "idle", !.outcome = "returned"]
                /\ UNCHANGED emit
    /\ UNCHANGED <<stream, cpc, received, calls, hooks, wrap, loopVars>>

\* stream() after `await this.hooks.emit('onAgentEnd', ...)`: an input is
\* sent to the queue and the loop runs again; else stream() returns.
SessionEnded ==
    /\ session.pc = "agentEnd"
    /\ emit.status \in {"returned", "threw"}
    /\ IF emit.status = "threw"
       THEN /\ session' = [session EXCEPT !.pc = "idle", !.outcome = "threw",
                                          !.result = emit.result]
            /\ UNCHANGED followUps
       ELSE IF FieldOrEmpty(emit.result, "input") # ""
       THEN /\ followUps' = Append(followUps, UserTurn(emit.result.input))
            /\ session' = [session EXCEPT !.pc = "loop", !.injectionCount = @ + 1]
       ELSE /\ session' = [session EXCEPT !.pc = "idle", !.outcome = "returned"]
            /\ UNCHANGED followUps
    /\ UNCHANGED <<stream, cpc, received, calls, hookVars, config, context, pc, iteration,
                   latestTurn, requests, model, modelTurn, toolCalls, results, invoked,
                   updated, aborted, sent, polls>>

(***************************************************************************)
(* The environment of a run                                                *)
(***************************************************************************)

Running == pc \notin {"idle", "start", "done", "failed", "returned"}

\* controller.abort() on the signal given to the loop
Abort ==
    /\ Running
    /\ config.signal
    /\ ~aborted
    /\ aborted' = TRUE
    /\ UNCHANGED <<stream, cpc, received, calls, session, hookVars, config, context, pc, iteration, latestTurn,
                   requests, model, modelTurn, toolCalls, results, invoked, updated,
                   followUps, sent, polls>>

\* A message is queued for getFollowUpMessages while the loop runs
Send ==
    /\ Running
    /\ config.getFollowUpMessages
    /\ sent < MaxSent
    /\ sent' = sent + 1
    /\ followUps' = Append(followUps, FollowUpTurn(sent + 1))
    /\ UNCHANGED <<stream, cpc, received, calls, session, hookVars, config, context, pc, iteration, latestTurn,
                   requests, model, modelTurn, toolCalls, results, invoked, updated,
                   aborted, polls>>

(***************************************************************************)
(* SpecLoop: one run of agentLoop with its consumer                        *)
(***************************************************************************)

InitLoop ==
    /\ stream = NewEventStream("agent.end")
    /\ cpc = "idle"
    /\ received = <<>>
    /\ calls = <<>>
    /\ config \in Configs
    /\ context = [ interactions |-> <<>>, previousInteractionId |-> NoString,
                   usage |-> EmptyUsage, tools |-> <<>>, systemInstruction |-> NoString ]
    /\ pc = "start"
    /\ iteration = 0
    /\ latestTurn = NoTurn
    /\ requests = <<>>
    /\ model = NewModel
    /\ modelTurn = NoTurn
    /\ toolCalls = <<>>
    /\ results = <<>>
    /\ invoked = <<>>
    /\ updated = FALSE
    /\ aborted = FALSE
    /\ followUps = <<>>
    /\ sent = 0
    /\ polls = 0
    /\ HooksIdle
    /\ session = NoSession

NextLoop ==
    \/ AgentLoop
    \/ LoopHead
    \/ TransformContext
    \/ CallModel
    \/ CreateResolves
    \/ CreateRejects
    \/ ModelEvent
    \/ ModelReturns
    \/ ToolStart
    \/ ToolUpdate
    \/ ToolSettles
    \/ ToolsReturn
    \/ Abort
    \/ Send
    \/ ConsumerNext
    \/ ConsumerResume

SpecLoop == InitLoop /\ [][NextLoop]_vars

\* The consumer's for-await loop keeps pulling: a continuation that is ready
\* is run by the event loop.
Consume == ConsumerNext \/ ConsumerResume

LiveLoop == SpecLoop /\ WF_vars(Consume)


(***************************************************************************)
(* SpecTools: executeTools on an arbitrary batch, with the stream's        *)
(* consumer                                                                *)
(***************************************************************************)

RECURSIVE SeqsUpTo(_, _)
SeqsUpTo(S, n) ==
    IF n = 0 THEN {<<>>}
    ELSE LET shorter == SeqsUpTo(S, n - 1)
         IN  shorter \cup {Append(q, x) : q \in shorter, x \in S}

InitTools ==
    /\ stream = NewEventStream("agent.end")
    /\ cpc = "idle"
    /\ received = <<>>
    /\ calls = <<>>
    /\ config \in { c \in Configs : c.maxIterations = 0 /\ c.transformContext = "none"
                                     /\ ~c.getFollowUpMessages }
    /\ \E tools \in {DefaultTools, OtherTools} :
          context = [ interactions |-> <<>>, previousInteractionId |-> NoString,
                      usage |-> EmptyUsage, tools |-> tools, systemInstruction |-> NoString ]
    /\ pc = "toolStart"
    /\ iteration = 0
    /\ latestTurn = NoTurn
    /\ requests = <<>>
    /\ model = NewModel
    /\ modelTurn = NoTurn
    /\ toolCalls \in SeqsUpTo(FunctionCallBlocks, MaxBatch)
    /\ results = <<>>
    /\ invoked = <<>>
    /\ updated = FALSE
    /\ aborted = FALSE
    /\ followUps = <<>>
    /\ sent = 0
    /\ polls = 0
    /\ HooksIdle
    /\ session = NoSession

\* return results
ExecuteToolsReturns ==
    /\ pc = "toolStart"
    /\ Len(results) = Len(toolCalls)
    /\ pc' = "returned"
    /\ UNCHANGED <<stream, cpc, received, calls, session, hookVars, config, context, iteration, latestTurn,
                   requests, model, modelTurn, toolCalls, results, invoked, updated, aborted,
                   followUps, sent, polls>>

NextTools ==
    \/ ToolStart
    \/ ToolUpdate
    \/ ToolSettles
    \/ ExecuteToolsReturns
    \/ ConsumerNext
    \/ ConsumerResume

SpecTools == InitTools /\ [][NextTools]_vars

(***************************************************************************)
(* SpecStream: an EventStream driven by arbitrary push and end calls       *)
(***************************************************************************)

\* The events and results of the EventStream unit tests.
StreamEvents ==
    { [type |-> "data", value |-> 1],
      [type |-> "data", value |-> 2],
      [type |-> "end",  value |-> 3] }

StreamResults == { Undefined, [value |-> 3], [value |-> 42] }

EnvPush ==
    /\ Len(calls) < MaxCalls
    /\ \E event \in StreamEvents :
          /\ stream' = Push(stream, event)
          /\ calls' = Append(calls, [op |-> "push", arg |-> event])
    /\ UNCHANGED <<cpc, received, session, loopVars, hookVars>>

EnvEnd ==
    /\ Len(calls) < MaxCalls
    /\ \E result \in StreamResults :
          /\ stream' = End(stream, result)
          /\ calls' = Append(calls, [op |-> "end", arg |-> result])
    /\ UNCHANGED <<cpc, received, session, loopVars, hookVars>>

InitStream ==
    /\ \E completeOn \in {"end", "never"} : stream = NewEventStream(completeOn)
    /\ cpc = "idle"
    /\ received = <<>>
    /\ calls = <<>>
    /\ LoopIdle
    /\ HooksIdle
    /\ session = NoSession

NextStream ==
    \/ EnvPush
    \/ EnvEnd
    \/ ConsumerNext
    \/ ConsumerResume

SpecStream == InitStream /\ [][NextStream]_vars

\* The consumer's for-await loop keeps pulling.
LiveStream == SpecStream /\ WF_vars(Consume)

(***************************************************************************)
(* SpecModel: callModel on the provider signals of text blocks             *)
(***************************************************************************)

\* Bound: the text deltas of a block.
MaxDeltas == 2

\* Bound: the content.stop signals of a block.
MaxStops == 2

\* The signals of one text block: content.start, its deltas, its stops
TextBlockSignals(i, deltas, stops) ==
    <<ContentStart(i, "text")>>
        \o [k \in 1..Len(deltas) |-> TextDelta(i, deltas[k])]
        \o [k \in 1..stops |-> ContentStop(i)]

RECURSIVE Interleavings(_, _)
\* The provider streams the signals of several blocks interleaved
Interleavings(s, t) ==
    IF s = <<>> THEN {t}
    ELSE IF t = <<>> THEN {s}
    ELSE {<<Head(s)>> \o r : r \in Interleavings(Tail(s), t)}
            \cup {<<Head(t)>> \o r : r \in Interleavings(s, Tail(t))}

\* What the provider streams besides the block at index 0
OtherSignals ==
    { <<>>,
      TextBlockSignals(1, <<"x">>, 2),
      <<CallDelta(1, CallAdd), ContentStop(1)>> }

TextScripts ==
    UNION { Interleavings(TextBlockSignals(0, deltas, stops), other) :
                deltas \in SeqsUpTo({"ab", "cd"}, MaxDeltas),
                stops \in 1..MaxStops,
                other \in OtherSignals }

InitModel ==
    /\ stream = NewEventStream("agent.end")
    /\ cpc = "idle"
    /\ received = <<>>
    /\ calls = <<>>
    /\ config \in { c \in Configs : c.maxIterations = 0 /\ c.transformContext = "none"
                                     /\ ~c.getFollowUpMessages }
    /\ context = [ interactions |-> <<>>, previousInteractionId |-> NoString,
                   usage |-> EmptyUsage, tools |-> <<>>, systemInstruction |-> NoString ]
    /\ pc = "modelStream"
    /\ iteration = 0
    /\ latestTurn = NoTurn
    /\ requests = <<>>
    /\ \E script \in TextScripts : model = [NewModel EXCEPT !.script = script]
    /\ modelTurn = NoTurn
    /\ toolCalls = <<>>
    /\ results = <<>>
    /\ invoked = <<>>
    /\ updated = FALSE
    /\ aborted = FALSE
    /\ followUps = <<>>
    /\ sent = 0
    /\ polls = 0
    /\ HooksIdle
    /\ session = NoSession

\* return { outputs, interactionId, usage }
CallModelReturns ==
    /\ pc = "modelStream"
    /\ model.script = <<>>
    /\ pc' = "returned"
    /\ modelTurn' = [role |-> "model", content |-> Outputs(model.contentBlocks)]
    /\ UNCHANGED <<stream, cpc, received, calls, session, hookVars, config, context, iteration,
                   latestTurn, requests, model, toolCalls, results, invoked, updated, aborted,
                   followUps, sent, polls>>

NextModel ==
    \/ ModelEvent
    \/ CallModelReturns

SpecModel == InitModel /\ [][NextModel]_vars

(***************************************************************************)
(* SpecHooks: a HookRunner with registered handlers, a dispatch made on it *)
(* directly or by a wrapped tool                                           *)
(***************************************************************************)

InitHooks ==
    /\ stream = NewEventStream("agent.end")
    /\ cpc = "idle"
    /\ received = <<>>
    /\ calls = <<>>
    /\ LoopIdle
    /\ HooksIdle
    /\ session = NoSession

NextHooks ==
    \/ On
    \/ Off
    \/ Clear
    \/ Emit
    \/ HandlerSettles
    \/ WrappedExecute
    \/ GateDecided
    \/ RealToolSettles
    \/ WrappedToolSettles
    \/ AfterDecided

SpecHooks == InitHooks /\ [][NextHooks]_vars

(***************************************************************************)
(* SpecSession: an AgentSession, its user, and the agent loops it runs.    *)
(* The provider answers every request with a text.                         *)
(***************************************************************************)

InitSession ==
    /\ stream = NewEventStream("agent.end")
    /\ cpc = "idle"
    /\ received = <<>>
    /\ calls = <<>>
    /\ LoopIdle
    /\ HooksIdle
    /\ session \in {NewSession(n) : n \in {0, MaxInjectionLoops}}

\* The session has handled every event pushed so far and waits for the
\* next; or stream() has ended by an error and nothing reads the loop's events.
SessionWaiting ==
    \/ session.pc = "forAwait" /\ cpc = "awaiting" /\ stream.handed = <<>>
    \/ session.pc = "idle"

\* client.interactions.create resolves with a text answer
SessionCreateResolves ==
    /\ SessionWaiting
    /\ CreateResolves
    /\ model'.script = TextScript(InteractionIdOf(Len(requests)))

\* The provider's next event, the end of its stream, or its failure, once the
\* session has handled the events before
SessionModelStep ==
    /\ SessionWaiting
    /\ CreateRejects \/ ModelEvent \/ ModelReturns

NextSession ==
    \/ SessionOn
    \/ SessionSend
    \/ SessionAbort
    \/ SessionStream
    \/ SessionStarted
    \/ SessionRunLoop
    \/ SessionNext
    \/ SessionEvent
    \/ SessionObserved
    \/ SessionResult
    \/ SessionEnded
    \/ HandlerSettles
    \/ AgentLoop
    \/ LoopHead
    \/ CallModel
    \/ SessionCreateResolves
    \/ SessionModelStep

SpecSession == InitSession /\ [][NextSession]_vars

(***************************************************************************)
(* SpecToolSession: an AgentSession whose provider asks for tools.  The     *)
(* user sends one message and calls stream(); the loop calls the wrapped    *)
(* tools of the session.                                                    *)
(***************************************************************************)

\* Bound: the requests of a session the provider may answer with tool calls.
MaxToolAnswers == 1

\* The handlers registered on the session before its first message
ToolRegistries ==
    { EmptyObject,
      [beforeToolExecute |-> <<Throws("gate failed")>>],
      [afterToolExecute |-> <<Throws("after failed")>>],
      [beforeToolExecute |-> <<Returns([allow |-> FALSE, reason |-> "R"])>>],
      [beforeToolExecute |-> <<Returns([allow |-> TRUE, arguments |-> [a |-> 1]])>>,
       afterToolExecute |-> <<Returns([result |-> Replacement])>>,
       onAgentEnd |-> <<Returns(Undefined)>>],
      [onInteractionEnd |-> <<Returns(Undefined), Returns(Undefined)>>],
      [onInteractionEnd |-> <<Returns(Undefined), Throws("observer failed")>>],
      [onAgentStart |-> <<StartHandler>>, afterToolExecute |-> <<Returns(Undefined)>>] }

InitToolSession ==
    /\ stream = NewEventStream("agent.end")
    /\ cpc = "idle"
    /\ received = <<>>
    /\ calls = <<>>
    /\ LoopIdle
    /\ HooksIdle
    /\ session = NewSession(MaxInjectionLoops)

\* session.on(hookName, handler), for each handler of a registry
ToolSessionOn ==
    /\ session.pc = "idle"
    /\ session.streams = 0 /\ session.sends = 0
    /\ hooks = EmptyObject
    /\ hooks' \in ToolRegistries \ {EmptyObject}
    /\ UNCHANGED <<stream, cpc, received, calls, session, loopVars, emit, wrap>>

\* The user's only message
SessionSendOnce ==
    /\ session.sends = 0
    /\ SessionSend

\* client.interactions.create resolves: the answer asks for tools, or is a text
ToolCreateResolves ==
    /\ SessionWaiting
    /\ CreateResolves
    /\ LET id == InteractionIdOf(Len(requests))
       IN  model'.script \in
               IF Len(requests) <= MaxToolAnswers
               THEN {TextScript(id), OneCallScript(id), MixedCallsScript(id)}
               ELSE {TextScript(id)}

\* A tool or a hook handler of a wrapped tool settles, once the session has
\* handled the events before
SessionToolStep ==
    /\ SessionWaiting
    /\ \/ GateDecided
       \/ RealToolSettles
       \/ WrappedToolSettles
       \/ AfterDecided
       \/ ToolSettles

NextToolSession ==
    \/ ToolSessionOn
    \/ SessionSendOnce
    \/ SessionStream
    \/ SessionStarted
    \/ SessionRunLoop
    \/ SessionNext
    \/ SessionEvent
    \/ SessionObserved
    \/ SessionResult
    \/ SessionEnded
    \/ HandlerSettles
    \/ AgentLoop
    \/ LoopHead
    \/ CallModel
    \/ ToolCreateResolves
    \/ SessionModelStep
    \/ ToolStart
    \/ ToolsReturn
    \/ SessionToolStep

SpecToolSession == InitToolSession /\ [][NextToolSession]_vars

(***************************************************************************)
(* Properties                                                              *)
(***************************************************************************)

\* The events handed to a waiting consumer whose continuation has not run
RECURSIVE HandedEvents(_)
HandedEvents(handed) ==
    IF handed = <<>> THEN <<>>
    ELSE IF Head(handed).done THEN HandedEvents(Tail(handed))
         ELSE <<Head(handed).value>> \o HandedEvents(Tail(handed))

\* Every event the stream accepted, in the order the consumer sees them
Pushed == received \o HandedEvents(stream.handed) \o stream.queue

\* The events of the push calls of a call log that precede termination: those
\* before the first end call, up to and including the first terminal event
RECURSIVE PushedBeforeTermination(_, _)
PushedBeforeTermination(log, completeOn) ==
    IF log = <<>> \/ Head(log).op = "end" THEN <<>>
    ELSE IF Head(log).arg.type = completeOn THEN <<Head(log).arg>>
         ELSE <<Head(log).arg>> \o PushedBeforeTermination(Tail(log), completeOn)

\* The value of the first end call of a call log that was given a result
RECURSIVE FirstEndResult(_)
FirstEndResult(log) ==
    IF log = <<>> THEN [resolved |-> FALSE, value |-> Undefined]
    ELSE IF Head(log).op = "end" /\ Head(log).arg # Undefined
         THEN [resolved |-> TRUE, value |-> Head(log).arg]
         ELSE FirstEndResult(Tail(log))

\* C1: whatever the interleaving of push calls and consumer pulls, what the
\* consumer received, followed by what it was handed and by what is buffered,
\* is exactly the sequence of events pushed before termination; a consumer
\* that has finished received all of them, in push order.
C1_PushOrderDelivered ==
    /\ Pushed = PushedBeforeTermination(calls, stream.completeOn)
    /\ cpc = "returned" => received = PushedBeforeTermination(calls, stream.completeOn)

\* C1 witness: the consumer, which started before a push, has received an event,
\* was handed a second one while it waited, and a third one is buffered behind.
C1_Witness ==
    /\ received # <<>>
    /\ HandedEvents(stream.handed) # <<>>
    /\ stream.queue # <<>>

\* C2: result() is resolved exactly when an end call was given a result, and
\* to the result of the first such call; a push, terminal or not, never
\* resolves it.
C2_ResultOnlyFromEnd ==
    stream.finalResult = FirstEndResult(calls)

\* C2 witness: a terminal event was pushed, end was called later, and the
\* resolved value is not that event's payload.
C2_Witness ==
    /\ stream.finalResult.resolved
    /\ \E i \in 1..Len(calls) :
          /\ calls[i].op = "push"
          /\ calls[i].arg.type = stream.completeOn
          /\ stream.finalResult.value # ExtractResult(calls[i].arg)

\* A tool of the active tool set has the name of the call
Registered(fc) ==
    Has(fc, "name") /\ \E i \in 1..Len(context.tools) : context.tools[i].name = fc.name

\* The calls of the batch executeTools has started so far
StartedCalls == 1..(Len(results) + (IF pc = "toolAwait" THEN 1 ELSE 0))

\* C7: executeTools returns one function_result per call, in call order, each
\* with the id and the name of its call (the empty string for a call that
\* has none); a call naming no registered tool gets the error-flagged
\* 'not found' result and execute is called for the registered calls only.
C7_OneResultPerCall ==
    /\ Len(results) <= Len(toolCalls)
    /\ pc = "returned" => Len(results) = Len(toolCalls)
    /\ \A k \in 1..Len(results) :
          /\ results[k].type = "function_result"
          /\ results[k].call_id = (IF Has(toolCalls[k], "id") THEN toolCalls[k].id ELSE "")
          /\ results[k].name = toolCalls[k].name
          /\ ~Registered(toolCalls[k]) =>
                /\ results[k].is_error
                /\ results[k].result = "Tool " \o toolCalls[k].name \o " not found"
    /\ \A j \in 1..Len(invoked) :
          /\ Registered(toolCalls[invoked[j][1]])
          /\ context.tools[invoked[j][2]].name = toolCalls[invoked[j][1]].name
    /\ Len(invoked) = Cardinality({k \in StartedCalls : Registered(toolCalls[k])})

\* C7 witness: executeTools has returned two results for a batch of a call
\* that names no tool and a call whose tool throws.
C7_Witness ==
    /\ pc = "returned"
    /\ toolCalls = <<CallGhost, CallBoom>>
    /\ Len(results) = 2
    /\ results[1].is_error /\ results[2].is_error

\* The events of a type among a sequence of events
OfType(events, type) == SelectSeq(events, LAMBDA e : e.type = type)

\* The payload agentLoop's catch block sends
EmptyResult == LoopResult(<<>>, "", EmptyUsage)

\* C3: when an iteration raises, agent.end was pushed as the last event and
\* end was called with a result, so result() is resolved; and a consumer
\* that keeps iterating then finishes.
C3_FailureReleasesConsumer ==
    /\ [](pc = "failed" =>
            /\ stream.done
            /\ stream.finalResult.resolved
            /\ Last(Pushed).type = "agent.end"
            /\ Len(OfType(Pushed, "agent.end")) = 1)
    /\ (pc = "failed") ~> (cpc = "returned")

\* C3 witness: the second model call of a run failed, and the consumer has
\* finished with agent.end as its last event.
C3_Witness ==
    /\ pc = "failed"
    /\ Len(requests) = 2
    /\ cpc = "returned"
    /\ Last(received).type = "agent.end"

\* C4: when the loop has ended without an exception, agent.start is the
\* first event, agent.end occurs once and is the last one, result() is
\* resolved with the interactions, interaction id and usage of that
\* agent.end event, and a consumer that has finished received all of it.
C4_StartAndSingleEnd ==
    pc = "done" =>
        /\ Head(Pushed).type = "agent.start"
        /\ Last(Pushed).type = "agent.end"
        /\ Len(OfType(Pushed, "agent.end")) = 1
        /\ stream.finalResult.resolved
        /\ stream.finalResult.value.interactions = Last(Pushed).interactions
        /\ stream.finalResult.value.interactionId = Last(Pushed).interactionId
        /\ stream.finalResult.value.usage = Last(Pushed).usage
        /\ stream.finalResult.value.interactions = context.interactions
        /\ cpc = "returned" => received = Pushed

\* C4 witness: a run of two model calls has ended and its consumer finished.
C4_Witness ==
    /\ pc = "done"
    /\ cpc = "returned"
    /\ Len(requests) = 2
    /\ Len(context.interactions) >= 4

\* The k-th block of content is the function_result of function call fc
IsResultOf(block, fc) ==
    /\ block.type = "function_result"
    /\ block.call_id = (IF Has(fc, "id") THEN fc.id ELSE "")

\* content resolves the function calls fcs, one result per call, in order
ResolvesAll(content, fcs) ==
    /\ Len(content) = Len(fcs)
    /\ \A k \in 1..Len(fcs) : IsResultOf(content[k], fcs[k])

\* C5: when a model call after the first is issued and the preceding model
\* Turn holds function calls, the input of the call is the user Turn with
\* exactly one function_result per call, in call order; and unless a
\* transformContext callback replaced the history, that Turn is the one
\* right after the model Turn in the history.
C5_CallsResolvedBeforeNextCall ==
    (pc = "create" /\ Len(requests) >= 2 /\ FunctionCalls(modelTurn.content) # <<>>) =>
        /\ ResolvesAll(Last(requests).input, FunctionCalls(modelTurn.content))
        /\ latestTurn.role = "user"
        /\ config.transformContext # "compact" =>
              LET n == Len(context.interactions)
              IN  /\ context.interactions[n - 1] = modelTurn
                  /\ context.interactions[n] = latestTurn
                  /\ latestTurn.content = Last(requests).input

\* C5 witness: the second model call is issued after a model Turn with
\* three function calls.
C5_Witness ==
    /\ pc = "create"
    /\ Len(requests) = 2
    /\ Len(FunctionCalls(modelTurn.content)) = 3
    /\ Len(Last(requests).input) = 3

SeedTurn == [role |-> "user", content |-> SeedInput]

\* The user Turn executeTools' results are appended as
ResultsTurn == [role |-> "user", content |-> results]

\* C6: a run issues at most maxIterations model calls; at the cap the loop
\* stops without error and issues no further call, the function calls of the
\* last model Turn having been executed and their results appended; with
\* maxIterations = 1 and one function call in the response the final
\* history is the seed Turn, the model Turn and the tool-result Turn.
C6_IterationCap ==
    /\ [](Len(requests) <= config.maxIterations /\ iteration <= config.maxIterations)
    /\ [][(pc = "loopHead" /\ iteration >= config.maxIterations /\ pc' # pc) =>
              (pc' = "done" /\ requests' = requests)]_vars
    /\ [][(pc = "done") => (pc' = "done" /\ requests' = requests)]_vars
    /\ []((pc = "done" /\ iteration = config.maxIterations /\ toolCalls # <<>>) =>
              /\ toolCalls = FunctionCalls(modelTurn.content)
              /\ ResolvesAll(results, toolCalls)
              /\ Last(context.interactions) = ResultsTurn)
    /\ []((pc = "done" /\ config.maxIterations = 1 /\ Len(toolCalls) = 1) =>
              /\ Len(requests) = 1
              /\ Len(results) = 1
              /\ context.interactions = <<SeedTurn, modelTurn, ResultsTurn>>)

\* C6 witness: a run with maxIterations = 1 whose only response held one
\* function call has stopped at the cap with a history of three Turns.
C6_Witness ==
    /\ pc = "done"
    /\ ~aborted
    /\ config.maxIterations = 1
    /\ modelTurn.content = <<CallAdd>>
    /\ Len(context.interactions) = 3

\* The tool a call resolves to throws or rejects
Throwing(fc) ==
    /\ FindTool(context.tools, fc) # 0
    /\ context.tools[FindTool(context.tools, fc)].does \in {"throws", "rejects"}

\* C8: a step of executeTools never leads to the loop's failure; the result
\* of a call whose tool threw or rejected is the error-flagged 'Error: ...'
\* result, announced by a tool.end event with isError true; and when the
\* loop is back at its head after a batch, every call of the batch has its
\* result and the results are the last Turn of the history.
C8_ToolErrorIsolated ==
    /\ [][(pc \in {"toolStart", "toolAwait"}) =>
              (pc' \in {"toolStart", "toolAwait", "loopHead"})]_vars
    /\ [](\A k \in 1..Len(results) : Throwing(toolCalls[k]) =>
              /\ results[k].is_error
              /\ results[k].result \in {"Error: boom", "Error: timeout"}
              /\ \E i \in 1..Len(Pushed) :
                    /\ Pushed[i].type = "tool.end"
                    /\ Pushed[i].isError
                    /\ Pushed[i].id = results[k].call_id
                    /\ Pushed[i].result = results[k].result)
    /\ []((pc = "loopHead" /\ toolCalls # <<>>) =>
              /\ Len(results) = Len(toolCalls)
              /\ Last(context.interactions) = ResultsTurn)

\* C8 witness: the first tool of a batch threw, the second call was
\* executed all the same, and the loop is at the head of its next iteration.
C8_Witness ==
    /\ pc = "loopHead"
    /\ toolCalls = <<CallBoom, CallFetch>>
    /\ Len(results) = 2
    /\ results[1].is_error
    /\ ~results[2].is_error

\* C9: when the signal is aborted as an iteration would begin, the loop
\* issues no model call and ends with agent.end and the resolved result, and
\* no call follows; while the signal is aborted in the middle of an
\* iteration the loop does not stop before the iteration's own end: every
\* call of a started batch is executed and its results are appended.
C9_AbortAtIterationStart ==
    /\ [][(pc = "loopHead" /\ aborted /\ pc' # pc) =>
              /\ pc' = "done"
              /\ requests' = requests
              /\ stream'.done
              /\ stream'.finalResult.resolved
              /\ Last(Pushed').type = "agent.end"]_vars
    /\ [][(pc \in {"done", "failed"}) => (pc' = pc /\ requests' = requests)]_vars
    /\ [][(aborted /\ pc # "loopHead" /\ pc' = "done" /\ pc # "done") =>
              /\ pc = "modelStream"
              /\ model.script = <<>>
              /\ FunctionCalls(modelTurn'.content) = <<>>]_vars
    /\ []((aborted /\ pc \in {"loopHead", "done"} /\ toolCalls # <<>>) =>
              /\ Len(results) = Len(toolCalls)
              /\ Last(context.interactions) = ResultsTurn)

\* C9 witness: the signal was aborted during the first iteration of a run
\* allowed two; the batch was executed, and the loop stopped after one
\* model call.
C9_Witness ==
    /\ aborted
    /\ pc = "done"
    /\ config.maxIterations = 2
    /\ Len(requests) = 1
    /\ Len(toolCalls) = 2
    /\ Len(results) = 2

\* C10: getFollowUpMessages is called only in an iteration whose model
\* output holds no function call; the step that starts a batch leaves the
\* follow-up queue alone; nothing is appended to the history while a batch
\* is executed; and in the history every model Turn with function calls is
\* followed by the Turn of their results.
C10_ToolCallsBeforeFollowUps ==
    /\ [][(polls' # polls) => (FunctionCalls(modelTurn'.content) = <<>>)]_vars
    /\ [][(pc = "modelStream" /\ pc' = "toolStart") =>
              (polls' = polls /\ followUps' = followUps)]_vars
    /\ [](pc \in {"toolStart", "toolAwait"} => Last(context.interactions) = modelTurn)
    /\ [](\A i \in 1..(Len(context.interactions) - 1) :
              (/\ context.interactions[i].role = "model"
               /\ FunctionCalls(context.interactions[i].content) # <<>>) =>
                  ResolvesAll(context.interactions[i + 1].content,
                              FunctionCalls(context.interactions[i].content)))

\* C10 witness: a follow-up message is queued while a tool call is in flight
\* and the provider has not been asked.
C10_Witness ==
    /\ pc = "toolAwait"
    /\ followUps # <<>>
    /\ polls = 0

(***************************************************************************)
(* The hook dispatcher and the tool wrapper                                *)
(***************************************************************************)

\* Handler i of the hook returns a denial.
Denies(hookName, i) ==
    LET handler == HandlersOf(hooks, hookName)[i]
    IN  handler.does = "returns" /\ handler.value # Undefined /\ ~handler.value.allow

\* The handlers before handler i of the hook all return without denying.
ApprovedBefore(hookName, i) ==
    \A j \in 1..(i - 1) :
        HandlersOf(hooks, hookName)[j].does = "returns" /\ ~Denies(hookName, j)

\* The handlers emit has called are the first ones registered, in that order.
InvokedInOrder ==
    /\ Len(emit.invoked) <= Len(HandlersOf(hooks, emit.hookName))
    /\ \A k \in 1..Len(emit.invoked) : emit.invoked[k].handler = k
    /\ emit.status = "running" => emit.awaiting = Len(emit.invoked)

\* C11: on a beforeToolExecute dispatch the handlers are called one at a time
\* in registration order; no handler registered after one that returns a
\* denial is ever called, and the dispatch returns the first denial (allow
\* false with its reason) as its result.
C11_FirstDenialEndsDispatch ==
    emit.hookName = "beforeToolExecute" =>
        /\ InvokedInOrder
        /\ \A i \in 1..Len(HandlersOf(hooks, "beforeToolExecute")) :
              Denies("beforeToolExecute", i) =>
                  /\ Len(emit.invoked) <= i
                  /\ emit.status = "returned" /\ ApprovedBefore("beforeToolExecute", i) =>
                        /\ emit.result = HandlersOf(hooks, "beforeToolExecute")[i].value
                        /\ ~emit.result.allow
                        /\ Len(emit.invoked) = i

\* handlers [allow, deny("R"), allow]: the result is {allow: false, reason: "R"}
\* and the third handler was not called
C11_Witness ==
    /\ emit.hookName = "beforeToolExecute"
    /\ emit.status = "returned"
    /\ HandlersOf(hooks, "beforeToolExecute") =
          << Returns([allow |-> TRUE]), Returns([allow |-> FALSE, reason |-> "R"]),
             Returns([allow |-> TRUE]) >>
    /\ emit.result = [allow |-> FALSE, reason |-> "R"]
    /\ Len(emit.invoked) = 2

\* C12: when the gate dispatch denies a call, the wrapped execute returns
\* (it does not throw) an error-flagged result whose text is "Blocked: "
\* followed by the denial's reason, or by the default message when the denial
\* has no reason, and the real tool's execute is never called.
C12_DenialBlocksTool ==
    /\ wrap.pc = "before" /\ emit.status = "returned" /\ ~emit.result.allow =>
          wrap.executed = <<>>
    /\ wrap.approval # Undefined /\ ~wrap.approval.allow =>
          /\ wrap.pc = "returned"
          /\ wrap.executed = <<>>
          /\ wrap.returned.isError = {TRUE}
          /\ wrap.returned.result =
                "Blocked: " \o (IF Has(wrap.approval, "reason")
                                THEN wrap.approval.reason
                                ELSE "Tool execution blocked by hook")
    /\ wrap.pc = "threw" => emit.status = "threw"

\* a call denied with reason "R" after an approving handler
C12_Witness ==
    /\ wrap.pc = "returned"
    /\ Len(emit.invoked) = 2
    /\ wrap.approval = [allow |-> FALSE, reason |-> "R"]
    /\ wrap.returned = [result |-> "Blocked: R", isError |-> {TRUE}]
    /\ wrap.executed = <<>>

\* The run failed on the provider: the create call rejected or the provider
\* sent an error event (the other step that raises is transformContext).
ProviderFailed == pc = "failed" /\ config.transformContext # "throws"

\* C13: when a run has failed on a provider error and its consumer is done
\* with the stream, the consumer has seen the failure as an exception, thrown
\* by the iteration or by result(), instead of a normal completion.
C13_ProviderErrorThrown ==
    ProviderFailed /\ cpc = "returned" =>
        \/ IterationOutcome = "threw"
        \/ ResultOutcome(stream) = "rejected"

\* C14: a push made once the stream is terminated (by a terminal event or by
\* end) changes neither the stream nor what the consumer has: the event is not
\* handed over and not buffered.  So a terminated stream holds, for a
\* consumer that starts late as for any other, only events pushed before
\* termination.
C14_LatePushDropped ==
    /\ [][(stream.done /\ Len(calls') = Len(calls) + 1 /\ Last(calls').op = "push")
             => (stream' = stream /\ received' = received)]_vars
    /\ [](stream.done /\ cpc = "idle" =>
             stream.queue = PushedBeforeTermination(calls, stream.completeOn))

\* C14 witness: events were pushed after termination, and a consumer that
\* started afterwards has finished with the earlier events only.
C14_Witness ==
    /\ cpc = "returned"
    /\ Len(calls) = 4
    /\ calls[1].op = "push" /\ calls[2].op = "push" /\ calls[2].arg.type = stream.completeOn
    /\ calls[3].op = "push" /\ calls[4].op = "push"
    /\ received = <<calls[1].arg, calls[2].arg>>

\* C15: once end has been called, with or without a result value, result()
\* is resolved; and once resolved its value never changes.
C15_EndResolvesResult ==
    /\ []((\E i \in 1..Len(calls) : calls[i].op = "end") => stream.finalResult.resolved)
    /\ [][stream.finalResult.resolved => (stream.finalResult' = stream.finalResult)]_vars

\* C16: once the stream is terminated, by a terminal event or by end, a
\* consumer that keeps iterating finishes; when it finishes it has received
\* every event pushed before termination, the terminal event included; and an
\* end call made while the consumer is blocked hands it a done signal.
C16_ConsumerFinishes ==
    /\ stream.done ~> (cpc = "returned")
    /\ [](cpc = "returned" =>
             /\ stream.done
             /\ stream.queue = <<>>
             /\ received = PushedBeforeTermination(calls, stream.completeOn))
    /\ [][(stream.waiting # <<>> /\ Len(calls') = Len(calls) + 1 /\ Last(calls').op = "end")
             => (stream'.waiting = <<>> /\ Last(stream'.handed).done)]_vars

\* C16 witness: end was never called; the consumer received the buffered
\* events up to the terminal event and finished.
C16_Witness ==
    /\ cpc = "returned"
    /\ \A i \in 1..Len(calls) : calls[i].op = "push"
    /\ Len(received) = 3
    /\ Last(received).type = stream.completeOn

\* The text.end events of block i among a sequence of events
TextEnds(events, i) ==
    SelectSeq(events, LAMBDA e : e.type = "text.end" /\ e.index = i)

RECURSIVE DeltaText(_, _)
\* The fragments of the text.delta events of block i, concatenated in order
DeltaText(events, i) ==
    IF events = <<>> THEN ""
    ELSE (IF Head(events).type = "text.delta" /\ Head(events).index = i
          THEN Head(events).delta ELSE "")
            \o DeltaText(Tail(events), i)

\* A text.delta of block i is among the events
HasDelta(events, i) ==
    \E k \in 1..Len(events) : events[k].type = "text.delta" /\ events[k].index = i

\* The events the claim expects callModel to push for a provider signal of a
\* text block, given the events pushed so far
ExpectedTextEvents(signal, pushed) ==
    CASE signal.event_type = "content.start" /\ signal.content.type = "text" ->
            << [type |-> "text.start", index |-> signal.index] >>
      [] signal.event_type = "content.delta" /\ signal.delta.type = "text" ->
            << [type |-> "text.delta", index |-> signal.index, delta |-> signal.delta.text] >>
      [] signal.event_type = "content.stop"
            /\ TextEnds(pushed, signal.index) = <<>>
            /\ HasDelta(pushed, signal.index) ->
            << [type |-> "text.end", index |-> signal.index,
                text |-> DeltaText(pushed, signal.index)] >>
      [] OTHER -> <<>>

Counter(usage, f) == IF f \in DOMAIN usage THEN usage[f] ELSE 0

\* The step in which callModel returns to runLoop
ModelCallReturns == pc = "modelStream" /\ model.script = <<>> /\ pc' # pc

\* C18: the loop's usage counters change only when a model call returns, and
\* then every counter becomes its previous value plus the value that call
\* reported (zero for a missing field); so no counter ever decreases, and a
\* run that ends without exception reports the accumulated counters as its
\* usage.
C18_UsageAddsUp ==
    /\ [][\A f \in UsageFields :
             /\ Counter(context'.usage, f) >= Counter(context.usage, f)
             /\ Counter(context'.usage, f) =
                   Counter(context.usage, f)
                     + (IF ModelCallReturns THEN Counter(model.usage, f) ELSE 0)]_vars
    /\ [](DOMAIN context.usage \subseteq UsageFields)
    /\ [](pc = "done" =>
             /\ stream.finalResult.value.usage = context.usage
             /\ Last(Pushed).usage = context.usage)

\* C18 witness: two model calls reporting total_tokens 10 and 15 give 25
C18_Witness ==
    /\ pc = "done"
    /\ Len(requests) = 2
    /\ Counter(context.usage, "total_tokens") = 25
    /\ Counter(context.usage, "total_input_tokens") = 5
    /\ Counter(model.usage, "total_tokens") = 15

\* The inputs an onAgentEnd dispatch collects from the handlers it has called
\* whose result it has seen: the non-empty input values, in registration order
RECURSIVE CollectedInputs(_, _)
CollectedInputs(handlers, n) ==
    IF n = 0 THEN <<>>
    ELSE LET value == handlers[n].value
         IN  CollectedInputs(handlers, n - 1)
               \o (IF value # Undefined /\ Has(value, "input") /\ value.input # ""
                   THEN <<value.input>> ELSE <<>>)

\* C19: an onAgentEnd dispatch that returns has called every registered
\* handler, in registration order; its result's input is the non-empty input
\* values of the handlers joined in that order by a blank line, and the
\* result is the empty object when no handler returned a non-empty input.
C19_CollectJoinsInputs ==
    emit.hookName = "onAgentEnd" =>
        /\ InvokedInOrder
        /\ emit.status = "returned" =>
              LET handlers == HandlersOf(hooks, "onAgentEnd")
                  inputs == CollectedInputs(handlers, Len(handlers))
              IN  /\ Len(emit.invoked) = Len(handlers)
                  /\ inputs = <<>> => emit.result = EmptyObject
                  /\ Len(inputs) = 1 => emit.result = [input |-> inputs[1]]
                  /\ Len(inputs) = 2 =>
                        emit.result = [input |-> inputs[1] \o "\n\n" \o inputs[2]]
                  /\ Len(inputs) = 3 =>
                        emit.result = [input |-> inputs[1] \o "\n\n" \o inputs[2]
                                                  \o "\n\n" \o inputs[3]]
                  /\ Len(inputs) = 4 =>
                        emit.result = [input |-> inputs[1] \o "\n\n" \o inputs[2]
                                                  \o "\n\n" \o inputs[3]
                                                  \o "\n\n" \o inputs[4]]
                  /\ Len(inputs) <= 4

\* handlers returning "a", nothing, "b": the result is {input: "a\n\nb"}
C19_Witness ==
    /\ emit.hookName = "onAgentEnd"
    /\ emit.status = "returned"
    /\ HandlersOf(hooks, "onAgentEnd") =
          << Returns([input |-> "a"]), Returns(Undefined), Returns([input |-> "b"]) >>
    /\ Len(emit.invoked) = 3
    /\ emit.result = [input |-> "a\n\nb"]

\* The hooks dispatched with the merge policy
MergeHooks == {"onAgentStart", "onInteractionStart", "afterToolExecute"}

\* Handler k of the hook returns an override of field f.
Overrides(hookName, k, f) ==
    LET handler == HandlersOf(hooks, hookName)[k]
    IN  handler.does = "returns" /\ handler.value # Undefined /\ f \in DOMAIN handler.value

\* C20: a merge-policy dispatch calls the handlers in registration order, each
\* with the event the dispatch was given; when it returns it has called every
\* handler, and its result holds exactly the fields some handler returned,
\* each with the value of the latest-registered handler that returned it; with
\* no handler the result is the empty object.
C20_MergeLaterWins ==
    emit.hookName \in MergeHooks =>
        LET handlers == HandlersOf(hooks, emit.hookName)
        IN  /\ InvokedInOrder
            /\ \A k \in 1..Len(emit.invoked) : emit.invoked[k].event = emit.event
            /\ emit.status = "returned" =>
                  /\ Len(emit.invoked) = Len(handlers)
                  /\ handlers = <<>> => emit.result = EmptyObject
                  /\ \A f \in {"tools", "systemInstruction", "input", "interactions", "result"} :
                        IF \E k \in 1..Len(handlers) : Overrides(emit.hookName, k, f)
                        THEN LET latest == CHOOSE k \in 1..Len(handlers) :
                                     /\ Overrides(emit.hookName, k, f)
                                     /\ \A j \in (k + 1)..Len(handlers) :
                                           ~Overrides(emit.hookName, j, f)
                             IN  /\ f \in DOMAIN emit.result
                                 /\ emit.result[f] = handlers[latest].value[f]
                        ELSE f \notin DOMAIN emit.result
                  /\ DOMAIN emit.result \subseteq
                        {"tools", "systemInstruction", "input", "interactions", "result"}

\* onAgentStart handlers returning {systemInstruction: "B", input: "hi"} and
\* then {systemInstruction: "A"}: the result is {systemInstruction: "A",
\* input: "hi"}
C20_Witness ==
    /\ emit.hookName = "onAgentStart"
    /\ emit.status = "returned"
    /\ HandlersOf(hooks, "onAgentStart") =
          << Returns([systemInstruction |-> "B", input |-> "hi"]),
             Returns([systemInstruction |-> "A"]) >>
    /\ emit.result = [systemInstruction |-> "A", input |-> "hi"]
    /\ Len(emit.invoked) = 2

\* C21: when a handler throws during emit, whatever the hook's policy, the
\* emit call fails with that handler's error and no handler registered after
\* it is called; a dispatch never returns a result after a handler it called
\* has thrown.
C21_HandlerErrorPropagates ==
    emit.hookName # "" =>
        LET handlers == HandlersOf(hooks, emit.hookName)
        IN  /\ InvokedInOrder
            /\ \A i \in 1..Len(handlers) :
                  handlers[i].does = "throws" => Len(emit.invoked) <= i
            /\ emit.status = "returned" =>
                  \A k \in 1..Len(emit.invoked) : handlers[k].does = "returns"
            /\ emit.status = "threw" =>
                  /\ handlers[Len(emit.invoked)].does = "throws"
                  /\ emit.result = [error |-> handlers[Len(emit.invoked)].message]
            /\ (emit.status # "running" /\ Len(emit.invoked) > 0
                   /\ handlers[Len(emit.invoked)].does = "throws") =>
                  emit.status = "threw"

\* an onInteractionEnd dispatch whose second handler of three throws
C21_Witness ==
    /\ emit.hookName = "onInteractionEnd"
    /\ emit.status = "threw"
    /\ Len(HandlersOf(hooks, "onInteractionEnd")) = 3
    /\ Len(emit.invoked) = 2
    /\ emit.result = [error |-> "observer failed"]


\* The tool.start and tool.end events of the run, in order
ToolEvents == SelectSeq(Pushed, LAMBDA e : e.type \in {"tool.start", "tool.end"})

\* C28: the tool events of a run alternate: a tool.start, then the tool.end
\* of the same call, then the next tool.start; a call is in flight exactly
\* while executeTools awaits its tool, so no two executions overlap.
C28_ToolsOneAtATime ==
    /\ \A i \in 1..Len(ToolEvents) :
          /\ ToolEvents[i].type = (IF i % 2 = 1 THEN "tool.start" ELSE "tool.end")
          /\ i % 2 = 0 =>
                /\ ToolEvents[i].id = ToolEvents[i - 1].id
                /\ ToolEvents[i].name = ToolEvents[i - 1].name
    /\ (Len(ToolEvents) % 2 = 1) <=> (pc = "toolAwait")
    /\ pc = "toolAwait" => Len(invoked) > 0 /\ invoked[Len(invoked)][1] = Len(results) + 1

\* C28 witness: the third call of a batch is in flight after the first two
\* calls have ended.
C28_Witness ==
    /\ pc = "toolAwait"
    /\ Len(toolCalls) = 3
    /\ Len(results) = 2
    /\ Len(ToolEvents) = 5


\* C29: when an iteration has raised, the agent.end event and the resolved
\* result carry the history, the continuation id and the usage the loop had
\* accumulated when it failed.
C29_ErrorCarriesPartialState ==
    (pc = "failed" /\ Len(context.interactions) >= 3) =>
        /\ Last(Pushed).type = "agent.end"
        /\ Last(Pushed).interactions = context.interactions
        /\ Last(Pushed).interactionId = context.previousInteractionId
        /\ Last(Pushed).usage = context.usage
        /\ stream.finalResult.value =
              LoopResult(context.interactions, context.previousInteractionId, context.usage)


\* The tools and the system instruction in force after the callback ran
TransformedTools == IF config.transformContext = "override" THEN OtherTools ELSE config.tools

TransformedInstruction ==
    IF config.transformContext = "override" THEN "SI2" ELSE config.systemInstruction

\* C30: with a transformContext callback configured, every iteration runs
\* the callback once, right after the iteration begins and before its model
\* call, and nothing else leads to the callback; the request of the model
\* call carries the tools and the system instruction the callback returned,
\* and the calls of the iteration's batch are resolved against those tools.
C30_TransformEveryIteration ==
    /\ [][(config.transformContext # "none" /\ iteration' = iteration + 1) =>
              (pc' = "transform")]_vars
    /\ [][(pc' = "transform" /\ pc # "transform") =>
              (pc = "loopHead" /\ iteration' = iteration + 1)]_vars
    /\ [][(pc = "transform" /\ pc' # pc) => (pc' \in {"callModel", "failed"})]_vars
    /\ [][(config.transformContext # "none" /\ Len(requests') = Len(requests) + 1) =>
              (Len(requests') = iteration)]_vars
    /\ []((config.transformContext \notin {"none", "throws"} /\ requests # <<>>) =>
              /\ Last(requests).tools =
                    [i \in 1..Len(TransformedTools) |-> TransformedTools[i].name]
              /\ Last(requests).system_instruction = TransformedInstruction
              /\ \A j \in 1..Len(invoked) :
                    invoked[j][2] = FindTool(TransformedTools, toolCalls[invoked[j][1]])
              /\ \A k \in 1..Len(results) :
                    FindTool(TransformedTools, toolCalls[k]) = 0 =>
                        results[k] = FunctionResult(toolCalls[k], NotFound(toolCalls[k])))

\* C30 witness: the callback replaced the tools and the instruction, the
\* first iteration's call of 'add' went to the replacement tool, and the
\* second model call has been requested with the replacement tools.
C30_Witness ==
    /\ config.transformContext = "override"
    /\ pc = "create"
    /\ Len(requests) = 2
    /\ requests[2].tools = <<"add", "boom">>
    /\ requests[2].system_instruction = "SI2"
    /\ toolCalls = <<CallAdd>>
    /\ results = <<FunctionResult(CallAdd, ToolReturn(AddTool2))>>


\* The number of dispatches of a hook since the outermost execute was called
Dispatches(hookName) == Len(SelectSeq(wrap.emitted, LAMBDA h : h = hookName))

\* C22: a tool that wrapToolsWithHooks returned and that is given to
\* wrapToolsWithHooks again keeps its name, and a call of its execute
\* dispatches beforeToolExecute once and afterToolExecute at most once.
C22_WrappingIdempotent ==
    /\ \A tool \in WrappedTools : WrapToolWithHooks(tool).name = tool.name
    /\ wrap.pc # "idle" =>
          /\ Dispatches("beforeToolExecute") = 1
          /\ Dispatches("afterToolExecute") <= 1


\* C23: a stream() call runs the agent loop at most maxInjectionLoops + 1
\* times and injects at most maxInjectionLoops times; when the run that
\* reaches the cap has ended, stream() returns without dispatching
\* onAgentEnd again.
C23_InjectionLoopsCapped ==
    /\ [](session.runs <= session.maxInjectionLoops + 1)
    /\ [](session.injectionCount <= session.maxInjectionLoops)
    /\ []((session.runs > 0 /\ session.pc # "loop") =>
              session.runs = session.injectionCount + 1)
    /\ [][(session.pc = "forAwait" /\ session.runs = session.maxInjectionLoops + 1
              /\ session'.pc \notin {"forAwait", "interactionEnd"}) =>
              (session'.pc = "idle" /\ session'.emitted = session.emitted)]_vars

\* C23 witness: with maxInjectionLoops 2 and an onAgentEnd handler that
\* always injects, stream() has returned after three runs.
C23_Witness ==
    /\ session.maxInjectionLoops = 2
    /\ session.pc = "idle"
    /\ session.outcome = "returned"
    /\ session.runs = 3
    /\ session.injectionCount = 2


\* The requests whose input is the n-th message the user sent
RequestsSending(n) ==
    {i \in 1..Len(requests) : requests[i].input = UserTurn(Message(n)).content}

\* C24: every run a stream() call starts after an injection is seeded with
\* the Turn at the head of the queue, which leaves the queue; and no message
\* of the user is sent to the model twice.
C24_RunsSeededFromQueue ==
    /\ [][(session.pc = "loop" /\ session'.pc = "forAwait" /\ session.runs >= 1) =>
              (/\ followUps # <<>>
               /\ Last(session'.seeds) = Head(followUps).content
               /\ followUps' = Tail(followUps))]_vars
    /\ [](\A n \in 1..MaxSends : Cardinality(RequestsSending(n)) <= 1)


\* The agent loop the session started is still running
LoopRunning == pc \notin {"idle", "done", "failed"}

SessionDispatches(hookName) == Len(SelectSeq(session.emitted, LAMBDA h : h = hookName))

\* C26: the session dispatches onAgentStart at most once: by a stream() call
\* that finds a queued message, on a session that has not started, before
\* any model call; the tools and the system instruction the handler returned
\* are those of the first request; and a stream() call on an empty queue
\* returns at once, yields nothing and dispatches nothing.
C26_StartHookOnce ==
    /\ [](SessionDispatches("onAgentStart") <= 1)
    /\ [][(SessionDispatches("onAgentStart")' > SessionDispatches("onAgentStart")) =>
              (/\ ~session.hasStarted
               /\ followUps # <<>>
               /\ requests = <<>>
               /\ session.seeds = <<>>)]_vars
    /\ []((SessionDispatches("onAgentStart") = 1 /\ requests # <<>>) =>
              /\ requests[1].tools = <<"add">>
              /\ requests[1].system_instruction = "B")
    /\ [][(session'.streams = session.streams + 1 /\ followUps = <<>>) =>
              (/\ session'.pc = "idle"
               /\ session'.outcome = "returned"
               /\ session'.result = Undefined
               /\ session'.yielded = <<>>
               /\ session'.emitted = session.emitted
               /\ session'.seeds = session.seeds
               /\ emit' = emit)]_vars

\* C26 witness: a second stream() call is running its loop on a session
\* whose first call dispatched onAgentStart and sent the returned tools and
\* instruction with the first request.
C26_Witness ==
    /\ session.streams = 2
    /\ session.pc = "forAwait"
    /\ SessionDispatches("onAgentStart") = 1
    /\ Len(requests) >= 2
    /\ requests[1].tools = <<"add">>
    /\ requests[1].system_instruction = "B"


\* C27: when an onInteractionStart handler is registered on a session, the
\* session has dispatched onInteractionStart before every model call.
C27_InteractionStartDispatched ==
    (HasHandlers(hooks, "onInteractionStart") /\ requests # <<>>) =>
        SessionDispatches("onInteractionStart") >= Len(requests)


\* The shallow merge, later fields winning, of the argument overrides returned
\* by the approving handlers among the first n; Undefined when there is none.
RECURSIVE MergedOverrides(_, _)
MergedOverrides(handlers, n) ==
    IF n = 0 THEN Undefined
    ELSE LET before == MergedOverrides(handlers, n - 1)
             handler == handlers[n]
         IN  IF /\ handler.does = "returns"
                /\ handler.value # Undefined
                /\ handler.value.allow
                /\ Has(handler.value, "arguments")
             THEN ShallowMerge(IF before = Undefined THEN EmptyObject ELSE before,
                               handler.value.arguments)
             ELSE before

\* C32: the decision a beforeToolExecute dispatch returns carries the merge
\* of the argument overrides of every handler that ran and approved before
\* the decision was reached, and no override when no handler returned one;
\* the real tool then receives the original arguments.
C32_GateCarriesOverrides ==
    /\ (emit.hookName = "beforeToolExecute" /\ emit.status = "returned") =>
          LET expected == MergedOverrides(HandlersOf(hooks, "beforeToolExecute"),
                                          emit.awaiting)
          IN  IF expected = Undefined
              THEN ~Has(emit.result, "arguments") \/ emit.result.arguments = Undefined
              ELSE Has(emit.result, "arguments") /\ emit.result.arguments = expected
    /\ (wrap.pc = "execute" /\ wrap.outer = <<>> /\ wrap.tool.does # "wrapped") =>
          LET expected == MergedOverrides(HandlersOf(hooks, "beforeToolExecute"),
                                          Len(HandlersOf(hooks, "beforeToolExecute")))
          IN  Last(wrap.executed) = IF expected = Undefined THEN wrap.args ELSE expected


\* The wrapper of an original tool is running for a call the gate approved.
ApprovedCall ==
    /\ wrap.tool # Undefined
    /\ wrap.tool.does # "wrapped"
    /\ wrap.outer = <<>>
    /\ wrap.approval # Undefined
    /\ wrap.approval.allow

\* What the real tool's execute gives the wrapper: its result, or the
\* error-flagged result the wrapper's catch makes of its exception.
RealResult(tool) ==
    IF tool.does \in {"throws", "rejects"}
    THEN [result |-> "Error: " \o ToolErrorMessage(tool), isError |-> {TRUE}]
    ELSE ToolReturn(tool)

\* C33: for an approved call the wrapped tool invokes the real tool exactly
\* once, then dispatches afterToolExecute exactly once with the real tool's
\* result (an exception having become the error-flagged result
\* "Error: <message>"), and returns the replacement that dispatch supplies,
\* or the real tool's result when it supplies none.
C33_ApprovedCallRunsOnce ==
    /\ ApprovedCall =>
          /\ Len(wrap.executed) = 1
          /\ wrap.executed[1] = EffectiveArgs(wrap.approval, wrap.args)
          /\ (wrap.pc = "execute") => (wrap.emitted = <<"beforeToolExecute">>)
          /\ (wrap.pc \in {"after", "returned", "threw"}) =>
                /\ wrap.emitted = <<"beforeToolExecute", "afterToolExecute">>
                /\ wrap.result = RealResult(wrap.tool)
                /\ emit.hookName = "afterToolExecute"
                /\ emit.event = AfterToolExecuteEvent(wrap.tool, wrap.toolCallId,
                                                      RealResult(wrap.tool))
          /\ (wrap.pc = "returned") =>
                (wrap.returned =
                    IF \E i \in DOMAIN HandlersOf(hooks, "afterToolExecute") :
                          HandlersOf(hooks, "afterToolExecute")[i] = Returns([result |-> Replacement])
                    THEN Replacement
                    ELSE RealResult(wrap.tool))
    /\ (wrap.tool # Undefined /\ wrap.tool.does # "wrapped" /\ wrap.outer = <<>>
            /\ ~ApprovedCall) =>
          (wrap.executed = <<>> /\ Dispatches("afterToolExecute") = 0)

\* C33 witness: an approved call of a tool that throws has returned the
\* replacement an afterToolExecute handler supplied for "Error: boom".
C33_Witness ==
    /\ ApprovedCall
    /\ wrap.pc = "returned"
    /\ wrap.tool.does = "throws"
    /\ wrap.result.isError = {TRUE}
    /\ wrap.returned = Replacement
    /\ Len(wrap.executed) = 1


\* C34: every Turn the follow-up provider returned to a run is delivered to
\* the model: when the run has ended without abort, the content of every user
\* Turn of its history was the input of one of its model calls.
C34_FollowUpsDelivered ==
    (session.pc # "idle" /\ pc = "done" /\ ~aborted) =>
        \A i \in DOMAIN context.interactions :
            (context.interactions[i].role = "user") =>
                (\E r \in DOMAIN requests : requests[r].input = context.interactions[i].content)

\* A value of the session's conversation state is empty.
NoConversation(ctx) ==
    /\ ctx.previousInteractionId \in {NoString, ""}
    /\ ctx.usage = EmptyUsage
    /\ ctx.interactions = <<>>

\* C35: a run that ends through the error path leaves the conversation state
\* of the session as it was: the continuation id, the usage and the history
\* the session held are not replaced by empty values.
C35_FailedRunKeepsState ==
    [][(pc = "failed" /\ session.pc = "forAwait") =>
          (/\ (session.context.previousInteractionId \notin {NoString, ""}) =>
                  (session'.context.previousInteractionId \notin {NoString, ""})
           /\ (session.context.usage # EmptyUsage) => (session'.context.usage # EmptyUsage)
           /\ (session.context.interactions # <<>>) =>
                  (session'.context.interactions # <<>>))]_vars

\* C36: a stream() call whose agent loop was aborted starts no other agent
\* loop, even when an onAgentEnd handler returns input.
C36_NoRunAfterAbort ==
    [][(session.pc = "loop" /\ session'.pc = "forAwait" /\ session.runs >= 1) =>
          ~aborted]_vars

\* C38: the usage of the session accumulates: apart from a run that failed,
\* no counter ever decreases, and a run that ends adds the usage of its model
\* calls to what the session held.
C38_UsageAccumulates ==
    [][/\ (pc # "failed") =>
              (Counter(session'.context.usage, "total_tokens")
                  >= Counter(session.context.usage, "total_tokens"))
       /\ (session.pc = "forAwait" /\ session'.pc \in {"agentEnd", "idle"} /\ pc = "done") =>
              (Counter(session'.context.usage, "total_tokens")
                  = Counter(session.context.usage, "total_tokens")
                      + Counter(context.usage, "total_tokens"))]_vars

\* C40: isStreaming is false while no stream() call is in flight, and true
\* while a model or tool call of a stream() call in flight is running.
C40_StreamingWhileRunning ==
    /\ (session.pc = "idle") => ~session.currentStream
    /\ (session.pc # "idle" /\ pc \in {"create", "modelStream", "toolAwait"}) =>
          session.currentStream


\* The runs the session has seeded with the n-th message of the user
SeededWith(s, n) ==
    {i \in DOMAIN s.seeds : s.seeds[i] = UserTurn(Message(n)).content}

\* C37: no message is lost and none is used twice: Turns leave the queue
\* only from its head as the seed of a run, all together and in order as
\* the follow-ups appended to the history of the running loop, or by abort();
\* and no message of the user seeds more than one run.
C37_NoMessageLost ==
    [][/\ (followUps' # followUps /\ Len(followUps') <= Len(followUps)) =>
              \/ session'.aborts = session.aborts + 1 /\ followUps' = <<>>
              \/ /\ session'.firstTurn = Head(followUps)
                 /\ followUps' = Tail(followUps)
                 /\ session'.pc \in {"agentStart", "loop"}
              \/ /\ followUps' = <<>>
                 /\ Len(context'.interactions) = Len(context.interactions) + 1 + Len(followUps)
                 /\ SubSeq(context'.interactions, Len(context.interactions) + 2,
                           Len(context'.interactions)) = followUps
       /\ \A n \in 1..session'.sends : Cardinality(SeededWith(session', n)) <= 1]_vars


\* The result executeTools' catch makes of the error of a hook handler
HookErrorResults == {"Error: gate failed", "Error: after failed"}

\* C31: the error of a beforeToolExecute or afterToolExecute handler that
\* throws while a wrapped tool runs inside the agent loop is not recovered:
\* it does not become an error-flagged tool result that is sent to the model
\* with the next request.
C31_HookErrorNotRecovered ==
    \A r \in DOMAIN requests : \A b \in DOMAIN requests[r].input :
        (requests[r].input[b].type = "function_result") =>
            (requests[r].input[b].result \notin HookErrorResults)


\* The positions of the interaction.end events among the events of the run
InteractionEnds == {i \in DOMAIN Pushed : Pushed[i].type = "interaction.end"}

\* The events of the run after the interaction.end before position i, up to i
Iteration(i) ==
    LET earlier == {p \in InteractionEnds : p < i}
        from == IF earlier = {} THEN 1
                ELSE 1 + CHOOSE p \in earlier : \A q \in earlier : q <= p
    IN  SubSeq(Pushed, from, i)

\* The model Turns of the history of the run
ModelTurns == SelectSeq(context.interactions, LAMBDA turn : turn.role = "model")

\* C39: one interaction.end is pushed per completed model call, with the
\* model Turn of that call, after the tool.start and tool.end of every call
\* of that Turn, and nothing of the iteration follows it; and a session
\* yields an interaction.end only when every onInteractionEnd handler was
\* called with its Turn and has returned.
C39_InteractionEndPerCall ==
    /\ [](pc \notin {"idle", "start"} =>
            /\ Cardinality(InteractionEnds)
                   = Len(ModelTurns) - (IF pc \in {"toolStart", "toolAwait"} THEN 1 ELSE 0)
            /\ \A k \in 1..Len(OfType(Pushed, "interaction.end")) :
                   OfType(Pushed, "interaction.end")[k].turn = ModelTurns[k]
            /\ \A i \in InteractionEnds :
                   /\ Len(OfType(Iteration(i), "tool.start"))
                          = Len(FunctionCalls(Pushed[i].turn.content))
                   /\ Len(OfType(Iteration(i), "tool.end"))
                          = Len(FunctionCalls(Pushed[i].turn.content))
                   /\ (i < Len(Pushed)) =>
                          (Pushed[i + 1].type \in {"interaction.start", "text.start",
                                                   "text.delta", "agent.end"}))
    /\ [][(Len(session'.yielded) = Len(session.yielded) + 1
              /\ Last(session'.yielded).type = "interaction.end"
              /\ HasHandlers(hooks, "onInteractionEnd")) =>
             (/\ session.pc = "interactionEnd"
              /\ emit.hookName = "onInteractionEnd"
              /\ emit.status = "returned"
              /\ Len(emit.invoked) = Len(HandlersOf(hooks, "onInteractionEnd"))
              /\ emit.event.turn = Last(session'.yielded).turn
              /\ Last(session'.yielded) = received[session.handled])]_vars

\* C39 witness: a session with two onInteractionEnd handlers has yielded the
\* interaction.end of a model call that asked for a tool, after the tool.end
\* of that call.
C39_Witness ==
    /\ Len(HandlersOf(hooks, "onInteractionEnd")) = 2
    /\ SessionDispatches("onInteractionEnd") >= 1
    /\ \E i \in DOMAIN session.yielded :
          /\ session.yielded[i].type = "interaction.end"
          /\ FunctionCalls(session.yielded[i].turn.content) # <<>>
          /\ \E j \in 1..(i - 1) : session.yielded[j].type = "tool.end"

=============================================================================
